---- MODULE Spec2Model ----
(***************************************************************************)
(* Evergarden: the concurrent fetch/scrape pipeline (actor runtime, HTTP   *)
(* fetcher, storage actor, scraper manager, script instances, archiver)    *)
(* and the broadcast body channel.                                         *)
(*                                                                         *)
(* Granularity: one action is the code a task runs between two suspension  *)
(* points (awaits).  A task that is blocked on a reply, a permit, a full   *)
(* mailbox or a body chunk is a state; the step that unblocks it runs to   *)
(* the next suspension point.                                              *)
(*                                                                         *)
(* Spec and SpecTwoPermits are the crawl (run_archiver and every actor it  *)
(* spawns) with one and with two semaphore permits; SpecRepeatedSeeds is   *)
(* the crawl with a seed URL that may be given twice.  Bodies are short in *)
(* the crawl and only their outcome is kept.  BodySpec is one body channel *)
(* with its producer and its Receiver handles, chunk by chunk.             *)
(***************************************************************************)
EXTENDS Integers, Sequences, FiniteSets, TLC

(***************************************************************************)
(* Bounds of the model and configuration values.                           *)
(***************************************************************************)
\* request ids available to the crawl (seeds + requests made by scripts)
MaxReq == 2
\* failures injected in one run: storage or pipe IO errors, timeouts,
\* bodies over the limit
MaxFaults == 1
\* flume::bounded capacity of the HTTP mailbox, scaled to the request bound
HttpCapacity == 1
\* flume::bounded capacity of the storage, scraper and script mailboxes, scaled
ActorCapacity == 1
\* general.max_hops
max_hops == 1
\* usize arithmetic of TASK_COUNT is modular; the modulus is scaled to 2^16
UsizeModulus == 65536
\* async_broadcast::broadcast(1024): the capacity of a body channel, scaled
ChanCapacity == 2
\* chunks of one body; more than the channel holds
MaxChunks == 3
\* bytes of a body that is stored and retrieved
MaxBody == 4
\* the block size of the lz4 frame, scaled
BlockSize == 3
\* BytesMut::zeroed(8096): the read buffer of the re-stream, scaled
BufferSize == 2
\* UrlInfos of one discovery chain: a seed and two hops
MaxChain == 3
\* query pairs of a URL given to surt
MaxPairs == 2
\* CDXRecords given to a CDX writer, and the longest batch of one call
MaxSubmitted == 4
MaxBatch == 3
\* the length of a chunk of a response body
MaxChunkLen == 2
\* the largest max_body_length that is configured
MaxLength == 3
\* responses handed to the ScriptManager in the pool's specification
MaxResponses == 2

Reqs == 1 .. MaxReq
\* a URL string that Url::join rejects
InvalidUrl == 0
\* the Url values of the model, by number: UrlTable[u] is the parsed URL.
\* Strings are sequences of characters.  host: Url::host_str, <<>> if the
\* URL has no host; domain: is the host a Host::Domain; port: the port as
\* written, 0 if none; query: the pairs of the query string, in its order,
\* a pair without "=" having the value NoValue
UrlTable ==
    << [scheme |-> "http", host |-> <<"a", ".", "c">>, domain |-> TRUE, port |-> 0,
        path |-> <<"/">>, query |-> <<>>],
       [scheme |-> "http", host |-> <<"b", ".", "c">>, domain |-> TRUE, port |-> 0,
        path |-> <<"/">>, query |-> <<>>],
       [scheme |-> "http", host |-> <<"w", "w", "w", ".", "a", ".", "c">>, domain |-> TRUE,
        port |-> 0, path |-> <<"/">>, query |-> <<>>],
       [scheme |-> "http", host |-> <<"a", ".", "c">>, domain |-> TRUE, port |-> 0,
        path |-> <<"/", "p">>, query |-> <<>>],
       [scheme |-> "http", host |-> <<"b", ".", "c">>, domain |-> TRUE, port |-> 0,
        path |-> <<"/", "p">>, query |-> <<>>],
       [scheme |-> "http", host |-> <<"w", "w", "w", ".", "a", ".", "c">>, domain |-> TRUE,
        port |-> 0, path |-> <<"/", "p">>, query |-> <<>>],
       [scheme |-> "data", host |-> <<>>, domain |-> FALSE, port |-> 0,
        path |-> <<"x">>, query |-> <<>>] >>
AllUrls == DOMAIN UrlTable
\* the URLs of the crawl: 1 and 2 are on different hosts, 3 is URL 1 with
\* "www." put before its host
Urls == {1, 2, 3}
\* no Url: the Err of Url::join
NoUrl == 0
\* relative references a script may write: "/" and "/p"
RelativeRefs == {-1, -2}
RelativePath(s) == IF s = -1 THEN <<"/">> ELSE <<"/", "p">>
\* the strings of Submit and Fetch frames: the text of a URL (its number), a
\* relative reference, or a string no base can be joined with
UrlStrings == AllUrls \cup RelativeRefs \cup {InvalidUrl}
\* the seed lists a run may be started with (seed_urls, parsed)
SeedLists == {<<1>>, <<1, 2>>}
\* seed lists that may give the same URL twice
RepeatedSeedLists == {<<1>>, <<1, 1>>}
\* the scripts of the configuration, one worker each
Scripts == {1, 2}
Workers == 1
Instances == Scripts \X (1 .. Workers)

\* Url::host of a URL
UrlHost(u) == UrlTable[u].host
\* Url::join: an absolute URL string is parsed by itself; a relative
\* reference replaces the path of a base that has a host and is rejected by
\* a base that cannot be a base
join(base, s) ==
    IF s \in AllUrls THEN s
    ELSE IF s \in RelativeRefs /\ UrlTable[base].host # <<>>
    THEN CHOOSE u \in AllUrls :
            UrlTable[u] = [UrlTable[base] EXCEPT !.path = RelativePath(s), !.query = <<>>]
    ELSE NoUrl
(***************************************************************************)
(* surt(url): the archive key of a URL, character by character.            *)
(***************************************************************************)
\* the characters of keys and values, in byte order
ByteOrder == <<"&", ")", ",", ".", "/", "0", "1", "2", "3", "4", "8", ":", "=", "?",
               "A", "B", "X", "a", "b", "c", "p", "w", "x">>
Code(c) == CHOOSE i \in DOMAIN ByteOrder : ByteOrder[i] = c
Digit == {"0", "1", "2", "3", "4", "5", "6", "7", "8", "9"}

\* char::to_lowercase, str::to_lowercase
LowerChar(c) == CASE c = "A" -> "a" [] c = "B" -> "b" [] c = "X" -> "x" [] OTHER -> c
to_lowercase(str) == [i \in DOMAIN str |-> LowerChar(str[i])]

RECURSIVE cmp(_, _)
\* str::cmp: is a before b, byte by byte
cmp(a, b) ==
    IF b = <<>> THEN FALSE
    ELSE IF a = <<>> THEN TRUE
    ELSE IF Code(Head(a)) # Code(Head(b)) THEN Code(Head(a)) < Code(Head(b))
    ELSE cmp(Tail(a), Tail(b))

RECURSIVE DigitRun(_, _)
\* the number of digits of s from position i on
DigitRun(s, i) == IF i <= Len(s) /\ s[i] \in Digit THEN 1 + DigitRun(s, i + 1) ELSE 0

\* a pattern that takes any host beginning with "www" and digits
AnyWwwPrefix(s) ==
    IF Len(s) >= 3 /\ SubSeq(s, 1, 3) = <<"w", "w", "w">>
    THEN LET e == 3 + DigitRun(s, 4)
         IN IF e + 1 <= Len(s) /\ s[e + 1] = "." THEN e + 1 ELSE e
    ELSE 0

\* regex!(r#"^www\d*\."#).find(s): the end of the match, 0 if there is none
find(s) ==
    IF Len(s) >= 3 /\ SubSeq(s, 1, 3) = <<"w", "w", "w">>
    THEN LET e == 3 + DigitRun(s, 4)
         IN IF e + 1 <= Len(s) /\ s[e + 1] = "." THEN e + 1 ELSE 0
    ELSE 0

\* Url::set_host(Some(host)) of an http(s) URL, the result ignored: an empty
\* host is refused and the URL stays as it is
set_host(url, host) == IF host = <<>> THEN url ELSE [url EXCEPT !.host = host]

RECURSIVE rsplit(_)
\* str::rsplit('.'): the parts between the dots, last part first
rsplit(s) ==
    IF \A i \in DOMAIN s : s[i] # "." THEN <<s>>
    ELSE LET d == CHOOSE i \in DOMAIN s : s[i] = "." /\ \A j \in i + 1 .. Len(s) : s[j] # "."
         IN <<SubSeq(s, d + 1, Len(s))>> \o rsplit(SubSeq(s, 1, d - 1))

RECURSIVE JoinWith(_, _)
\* the strings of a sequence with a separator between them
JoinWith(parts, sep) ==
    IF parts = <<>> THEN <<>>
    ELSE IF Len(parts) = 1 THEN parts[1]
    ELSE parts[1] \o <<sep>> \o JoinWith(Tail(parts), sep)

\* the default port of a scheme, 0 if it has none
DefaultPort(scheme) ==
    CASE scheme = "http" -> 80 [] scheme = "https" -> 443 [] OTHER -> 0

\* Url::port: None (0) for no port and for the default port of the scheme
port(url) == IF url.port = DefaultPort(url.scheme) THEN 0 ELSE url.port

RECURSIVE itoa(_)
\* itoa::Buffer::format
itoa(n) ==
    LET d == <<"0", "1", "2", "3", "4", "5", "6", "7", "8", "9">>[(n % 10) + 1]
    IN IF n < 10 THEN <<d>> ELSE itoa(n \div 10) \o <<d>>

\* Url::query_pairs, lower-cased: a pair without "=" has the empty value
query_pairs(url) ==
    [i \in DOMAIN url.query |->
        [k |-> to_lowercase(url.query[i].k), v |-> to_lowercase(url.query[i].v)]]

RECURSIVE sort_unstable_by(_)
\* sort_unstable_by(|(a, _), (b, _)| a.cmp(b)) of a short slice: insertion
\* sort, an element moves left past the elements whose key is greater
sort_unstable_by(pairs) ==
    IF pairs = <<>> THEN <<>>
    ELSE LET sorted == sort_unstable_by(SubSeq(pairs, 1, Len(pairs) - 1))
             x == pairs[Len(pairs)]
             n == Cardinality({j \in DOMAIN sorted : ~cmp(x.k, sorted[j].k)})
         IN SubSeq(sorted, 1, n) \o <<x>> \o SubSeq(sorted, n + 1, Len(sorted))

\* form_urlencoded: extend_pairs(..).finish(), every pair as key=value
extend_pairs(pairs) == JoinWith([i \in DOMAIN pairs |-> pairs[i].k \o <<"=">> \o pairs[i].v], "&")

\* surt(url)
surt(url) ==
    LET stripped == IF url.domain /\ find(url.host) # 0
                    THEN set_host(url, SubSeq(url.host, find(url.host) + 1, Len(url.host)))
                    ELSE url
        q == extend_pairs(sort_unstable_by(query_pairs(stripped)))
    IN JoinWith(rsplit(stripped.host), ",")
       \o (IF port(stripped) # 0 THEN <<":">> \o itoa(port(stripped)) ELSE <<>>)
       \o <<")">>
       \o stripped.path
       \o (IF q # <<>> THEN <<"?">> \o q ELSE <<>>)

\* the key of every URL of the model
SurtKey == [u \in AllUrls |-> surt(UrlTable[u])]
\* let key = surt(url): the archive key of a URL of the crawl
key(u) == SurtKey[u]
Keys == {key(u) : u \in Urls}

NoRecord == 0
\* a record left by an earlier crawl (--no-clobber)
OldRecord == -1

VARIABLES
    seed_urls,     \* the seed URLs of the command line, parsed
    archiver,      \* run_archiver: "start", "ticking", "close_scripts", "close_http", "done",
                   \* "panicked"
    submitter,     \* the seed submitter task: "init", "waiting", "finished"
    entry_points,  \* CrawlInfo.entry_points
    TASK_COUNT,    \* the global in-flight counter
    max_tasks_per_worker, \* RateLimitingConfig.max_tasks_per_worker of this run
    permits,       \* available permits of the semaphore
    archive,       \* Keys -> NoRecord, OldRecord or the request whose response is stored
    call,          \* every deferred_request: state, result, orphaned reply future
    queue,         \* the mailboxes
    req,           \* per HTTP request: UrlInfo, origin, fetch task
    nextReq,       \* next unused request id
    body,          \* per fetch: the result of the body pump task
    httpActor,
    manager,       \* the ScriptManager actor
    instance,      \* the ScriptInstance actors
    watch,         \* the shutdown watch channels of the ActorManagers
    faults,        \* failures injected so far
    pump,          \* one body producer: broadcast_body or the storage re-stream
    chan,          \* its broadcast channel
    rcv,           \* the Receiver handles of that channel
    chain,         \* a discovery chain: the UrlInfo of a seed and of every hop from it
    hopped,        \* the last call of UrlInfo::hop: self, new_url and the result
    response,      \* the HttpResponse given to a Store: metadata and body chunks
    record,        \* what the cache holds under its key: metadata and the lz4 frame
    retrieved,     \* the HttpResponse of a Retrieve: metadata and the chunks re-streamed
    surted,        \* one call of surt: the Url given and the key returned
    cache,         \* the archive an export reads: its records and its CrawlInfo
    ex,            \* main of the export: its position and its locals
    warc_writer,   \* the RotatingWarcRecorder and the WARC files of its directory
    cdx_writer,    \* the CDXWriter: its buffer, index.cdx.gz and index.idx
    pages_writer,  \* the PagesWriter: pages.jsonl and extraPages.jsonl
    package,       \* the file at the output path: the ZIP and its members
    matched,       \* one call of ScriptFilter::matches: filter, response, result
    stream,        \* the hyper::Body that broadcast_body reads, and its count
    mail,          \* the mailboxes of the ScriptManager and of each Script
    sm,            \* the ScriptManager actor of the pool's specification
    pool,          \* the ScriptInstance actors of each Script, `workers` of them
    signal,        \* the watch channel of each ActorManager: Running or Closing
    owner,         \* the caller of close_and_join on the scraper manager
    answered,      \* the replies sent: output.send(result)
    proc_in,       \* what has been written to the stdin of one subprocess
    submitting     \* where that subprocess's ScriptInstance is

pipeVars == <<seed_urls, archiver, submitter, entry_points, TASK_COUNT, max_tasks_per_worker,
              permits, archive, call,
              queue, req, nextReq, body, httpActor, manager, instance,
              watch, faults>>
chanVars == <<pump, chan, rcv>>
hopVars == <<chain, hopped>>
storeVars == <<response, record, retrieved>>
\* the variables of the specifications of single operations
surtVars == <<surted>>
exportVars == <<cache, ex, warc_writer, cdx_writer, pages_writer, package>>
filterVars == <<matched>>
limitVars == <<stream>>
actorVars == <<mail, sm, pool, signal, owner, answered>>
writerVars == <<proc_in, submitting>>
auxVars == <<hopVars, storeVars, surtVars, filterVars, limitVars, actorVars, writerVars,
            exportVars>>
vars == <<pipeVars, chanVars, auxVars>>

(***************************************************************************)
(* Calls and mailboxes.  A call is one deferred_request: <<kind, r, s>>    *)
(* where r is the HTTP request it belongs to and s the script (0 if none). *)
(***************************************************************************)
HttpCall(r) == <<"http", r, 0>>
RetrCall(r) == <<"retr", r, 0>>
StoreCall(r) == <<"store", r, 0>>
ProcCall(r) == <<"proc", r, 0>>
ScriptCall(r, s) == <<"script", r, s>>
CallIds == {<<k, r, 0>> : k \in {"http", "retr", "store", "proc"}, r \in Reqs}
             \cup {<<"script", r, s>> : r \in Reqs, s \in Scripts}

HttpBox == <<"http", 0>>
StorageBox == <<"storage", 0>>
ManagerBox == <<"manager", 0>>
ScriptBox(s) == <<"script", s>>
Mailboxes == {HttpBox, StorageBox, ManagerBox} \cup {ScriptBox(s) : s \in Scripts}

MailboxOf(c) ==
    CASE c[1] = "http" -> HttpBox
      [] c[1] \in {"retr", "store"} -> StorageBox
      [] c[1] = "proc" -> ManagerBox
      [] OTHER -> ScriptBox(c[3])

Capacity(m) == IF m = HttpBox THEN HttpCapacity ELSE ActorCapacity

NoCall == [st |-> "none", res |-> "none", orphan |-> FALSE]

\* The three pieces of state a deferred_request touches, threaded through an action.
Rt == [call |-> call, queue |-> queue, cnt |-> TASK_COUNT]

\* TASK_COUNT.fetch_add(1) / fetch_sub(1) on the usize
FetchAdd(n) == (n + 1) % UsizeModulus
FetchSub(n) == (n - 1) % UsizeModulus

\* deferred_request counting the message when it is enqueued
DeferredRequestCountOnEnqueue(S, c) ==
    LET m == MailboxOf(c)
        room == Len(S.queue[m]) < Capacity(m)
    IN [call |-> [S.call EXCEPT ![c] =
                     [st |-> IF room THEN "queued" ELSE "sending",
                      res |-> "none", orphan |-> FALSE]],
        queue |-> IF room THEN [S.queue EXCEPT ![m] = Append(@, c)] ELSE S.queue,
        cnt |-> IF room THEN (S.cnt + 1) % UsizeModulus ELSE S.cnt]

\* Mailbox::deferred_request up to its first suspension point: count, then
\* enqueue if the mailbox has room, else stay blocked in send_async.
DeferredRequest(S, c) ==
    LET m == MailboxOf(c)
        room == Len(S.queue[m]) < Capacity(m)
    IN [call |-> [S.call EXCEPT ![c] =
                     [st |-> IF room THEN "queued" ELSE "sending",
                      res |-> "none", orphan |-> FALSE]],
        queue |-> IF room THEN [S.queue EXCEPT ![m] = Append(@, c)] ELSE S.queue,
        cnt |-> FetchAdd(S.cnt)]

\* The reply future resolves in the task that awaits it: the inspect closure
\* runs and the output is moved out to the awaiting code.
Resolve(S, c) ==
    [call |-> [S.call EXCEPT ![c] = [st |-> "resolved", res |-> "none", orphan |-> FALSE]],
     queue |-> S.queue,
     cnt |-> FetchSub(S.cnt)]

\* output.send(result) by the answering actor or fetch task; the value is
\* lost when the receiving future has been dropped
Reply(S, c, result) ==
    [call |-> [S.call EXCEPT ![c].st = "replied",
                             ![c].res = IF S.call[c].orphan THEN "none" ELSE result],
     queue |-> S.queue,
     cnt |-> S.cnt]

\* rx.recv_async() took the head of mailbox m
Dequeue(S, m) ==
    [call |-> [S.call EXCEPT ![Head(S.queue[m])].st = "answering"],
     queue |-> [S.queue EXCEPT ![m] = Tail(@)],
     cnt |-> S.cnt]

\* A reply future dropped before it resolved: nothing runs, the count stays.
\* A future dropped inside send_async never enqueues its message.
DropFuture(S, c) ==
    [call |-> [S.call EXCEPT ![c] =
                  IF @.st = "sending" THEN [@ EXCEPT !.st = "cancelled"]
                  ELSE IF @.st \in {"queued", "answering", "replied"}
                       THEN [@ EXCEPT !.orphan = TRUE, !.res = "none"]
                       ELSE @],
     queue |-> S.queue,
     cnt |-> S.cnt]

Commit(S) ==
    /\ call' = S.call
    /\ queue' = S.queue
    /\ TASK_COUNT' = S.cnt

\* present: was a record under the URL's key when the HTTP actor took the
\* request; retr: the reply of its Retrieve; stored / scraped: the results of
\* the Store and Process requests of the fetch task's join!, kept until the
\* task ends; answer: the AnswerFetch written for a Fetch frame
NoReq == [url |-> 0, discovered_in |-> 0, hops |-> 0, src |-> "none", task |-> "none",
          present |-> FALSE, retr |-> "none", stored |-> "none",
          scraped |-> "none", answer |-> "none"]

\* Option<UrlInfo>::None
None == [url |-> NoUrl, discovered_in |-> NoUrl, hops |-> 0]

\* a hop that counts every joined URL
hopCountingEveryUrl(self, new_url) ==
    LET new == join(self.url, new_url)
    IN IF new = NoUrl THEN None
       ELSE [url |-> new, discovered_in |-> self.url, hops |-> self.hops + 1]

\* UrlInfo::hop
hop(self, new_url) ==
    LET new == join(self.url, new_url)
    IN IF new = NoUrl THEN None
       ELSE [url |-> new,
             discovered_in |-> self.url,
             hops |-> IF UrlHost(new) # UrlHost(self.url) THEN self.hops + 1
                      ELSE self.hops]

\* data.meta.url: the UrlInfo of the response of request r
MetaUrl(r) == [url |-> req[r].url, discovered_in |-> req[r].discovered_in,
               hops |-> req[r].hops]

\* ScriptFilter::matches on the response of request r
matches(s, r) == s = 1 \/ req[r].url = 1

\* an injected failure uses up the failure budget
Inject(failed) ==
    /\ failed => faults < MaxFaults
    /\ faults' = IF failed THEN faults + 1 ELSE faults

(***************************************************************************)
(* Initial state: Storage::new has run; the archive may hold the records   *)
(* of an earlier crawl (--no-clobber).                                     *)
(***************************************************************************)
IdleInstance == [st |-> "idle", cur |-> 0, child |-> 0]

\* no body channel is followed in the crawl's specification
ChanIdle ==
    /\ pump = [st |-> "none", n |-> 0, end |-> "eof", next |-> 1, mode |-> "none"]
    /\ chan = [q |-> <<>>, head |-> 0, closed |-> FALSE, sent |-> <<>>]
    /\ rcv = <<>>

\* no call of UrlInfo::hop yet
NoHop == [self |-> None, new_url |-> InvalidUrl, out |-> None, called |-> FALSE]

\* no discovery chain is followed
HopIdle ==
    /\ chain = <<>>
    /\ hopped = NoHop

\* a ResponseMetadata that is not there
NoMeta == [url |-> None, status |-> 0, headers |-> <<>>]

\* no response is stored or retrieved
StoreIdle ==
    /\ response = [meta |-> NoMeta, chunks |-> <<>>]
    /\ record = [committed |-> FALSE, metadata |-> <<>>, frame |-> <<>>]
    /\ retrieved = [called |-> FALSE, meta |-> NoMeta, chunks |-> <<>>]

\* no call of surt
SurtIdle == surted = [url |-> UrlTable[1], out |-> <<>>, called |-> FALSE]

\* the workers of a Script in the pool's specification (ScriptConfig.workers)
PoolWorkers == 2
Pool == Scripts \X (1 .. PoolWorkers)
\* no pool of script instances is followed
ActorIdle ==
    /\ mail = <<>>
    /\ sm = <<>>
    /\ pool = <<>>
    /\ signal = <<>>
    /\ owner = <<>>
    /\ answered = {}

\* nothing is written to a subprocess
WriterIdle ==
    /\ proc_in = <<>>
    /\ submitting = "none"

\* no body is read under a limit
LimitIdle == stream = <<>>

\* no call of ScriptFilter::matches
FilterIdle == matched = <<>>

\* the export has not started: nothing is open, no file is at the output path
NoExport == [pc |-> "none", records |-> <<>>, i |-> 1, batch |-> <<>>, entry_points |-> <<>>,
             warc_entries |-> <<>>, resources |-> <<>>, copied |-> 0]
NoWarcWriter == [counter |-> 0, cur |-> 0, files |-> <<>>, digests |-> <<>>]
NoCdxWriter == [buffer |-> <<>>, out |-> <<>>, aux |-> <<>>]
NoPagesWriter == [main |-> <<>>, extra |-> <<>>]
NoPackage == [created |-> FALSE, members |-> <<>>, finished |-> FALSE]
ExportIdle ==
    /\ cache = [records |-> {}, entry_points |-> <<>>]
    /\ ex = NoExport
    /\ warc_writer = NoWarcWriter
    /\ cdx_writer = NoCdxWriter
    /\ pages_writer = NoPagesWriter
    /\ package = NoPackage

\* the single operations are not followed in the crawl's specification
AuxIdle ==
    /\ HopIdle /\ StoreIdle /\ SurtIdle /\ FilterIdle /\ LimitIdle /\ ActorIdle
    /\ WriterIdle /\ ExportIdle

PipeStart(a, n) ==
    /\ archiver = "start"
    /\ submitter = "init"
    /\ entry_points = {}
    /\ TASK_COUNT = 0
    /\ max_tasks_per_worker = n
    /\ permits = n
    /\ archive = a
    /\ call = [c \in CallIds |-> NoCall]
    /\ queue = [m \in Mailboxes |-> <<>>]
    /\ req = [r \in Reqs |-> NoReq]
    /\ nextReq = 1
    /\ body = [r \in Reqs |-> "none"]
    /\ httpActor = [st |-> "idle", cur |-> 0]
    /\ manager = [st |-> "idle", cur |-> 0, ready |-> <<>>]
    /\ instance = [i \in Instances |-> IdleInstance]
    /\ watch = [scripts |-> "Running", http |-> "Running", inst |-> "Running",
                storage |-> "Running"]
    /\ faults = 0

\* a crawl configured with max_tasks_per_worker = 1
Init ==
    /\ seed_urls \in SeedLists
    /\ \E a \in [Keys -> {NoRecord, OldRecord}] : PipeStart(a, 1)
    /\ ChanIdle
    /\ AuxIdle

\* a crawl configured with max_tasks_per_worker = 2
InitTwoPermits ==
    /\ seed_urls \in SeedLists
    /\ \E a \in [Keys -> {NoRecord, OldRecord}] : PipeStart(a, 2)
    /\ ChanIdle
    /\ AuxIdle

\* a crawl into an empty archive whose command line may repeat a seed URL
InitRepeatedSeeds ==
    /\ seed_urls \in RepeatedSeedLists
    /\ PipeStart([k \in Keys |-> NoRecord], 1)
    /\ ChanIdle
    /\ AuxIdle

RECURSIVE DeferAll(_, _)
\* several deferred_request futures polled for the first time in one poll
DeferAll(S, cs) ==
    IF cs = <<>> THEN S ELSE DeferAll(DeferredRequest(S, Head(cs)), Tail(cs))

RECURSIVE DropAll(_, _)
DropAll(S, cs) ==
    IF cs = {} THEN S
    ELSE LET c == CHOOSE x \in cs : TRUE IN DropAll(DropFuture(S, c), cs \ {c})

RECURSIVE SetToSeq(_)
SetToSeq(S) ==
    IF S = {} THEN <<>>
    ELSE LET x == CHOOSE y \in S : \A z \in S : y <= z IN <<x>> \o SetToSeq(S \ {x})

RECURSIVE ReplyAll(_, _, _)
ReplyAll(S, cs, result) ==
    IF cs = <<>> THEN S ELSE ReplyAll(Reply(S, Head(cs), result), Tail(cs), result)

(***************************************************************************)
(* Panics.  A task that panics unwinds: what it owns is dropped.  The      *)
(* oneshot Sender of the message it was answering is dropped, so the reply *)
(* future of that message resolves to Err(RecvError), on which             *)
(* Mailbox::request panics in its turn (v.await.unwrap()); reply futures   *)
(* the task owned are dropped unresolved.                                  *)
(***************************************************************************)
DeadInstance(how) == [st |-> how, cur |-> 0, child |-> 0]

\* the instance tasks that have not ended
LiveInstances == {i \in Instances : instance[i].st \in {"idle", "frames", "fetchwait"}}

\* the future of instance i is dropped at its suspension point: the Message
\* it was answering, and the request to the HTTP actor it was sending or
\* awaiting (a Submit's reply future that was already spawned lives on)
DropInstance(S, i) ==
    LET S1 == IF instance[i].st \in {"frames", "fetchwait"}
              THEN Reply(S, ScriptCall(instance[i].cur, i[1]), "RecvError")
              ELSE S
        h == HttpCall(instance[i].child)
    IN IF instance[i].child # 0
          /\ (instance[i].st = "fetchwait" \/ S1.call[h].st = "sending")
       THEN DropFuture(S1, h)
       ELSE S1

RECURSIVE DropInstances(_, _)
DropInstances(S, is) ==
    IF is = {} THEN S
    ELSE LET i == CHOOSE x \in is : TRUE
         IN DropInstances(DropInstance(S, i), is \ {i})

RECURSIVE DropMailboxes(_, _)
\* the channel of a Script is dropped with the messages still queued in it
DropMailboxes(S, ss) ==
    IF ss = {} THEN S
    ELSE LET s == CHOOSE x \in ss : TRUE
             S1 == ReplyAll(S, S.queue[ScriptBox(s)], "RecvError")
         IN DropMailboxes([S1 EXCEPT !.queue[ScriptBox(s)] = <<>>], ss \ {s})

\* The ScriptManager task unwinds: the ScriptManager is dropped, and with it
\* every Script: its mailbox and its ActorManager, whose JoinSet aborts the
\* instance tasks.
ManagerPanics(S) ==
    /\ Commit(DropMailboxes(DropInstances(S, LiveInstances), Scripts))
    /\ manager' = [st |-> "panicked", cur |-> 0, ready |-> <<>>]
    /\ instance' = [i \in Instances |->
                      IF i \in LiveInstances THEN DeadInstance("aborted") ELSE instance[i]]

(***************************************************************************)
(* run_archiver up to the quiescence loop, and the seed submitter task.    *)
(***************************************************************************)
\* Storage::del_by_key: the archive without the record of a key
del_by_key(a, k) == [a EXCEPT ![k] = NoRecord]

\* write_info, del_by_key of every seed key, the actors are spawned, and the
\* submitter task is polled for the first time: every mail.request(u) of its
\* FuturesUnordered starts
ArchiverStart(seeds) ==
    /\ archiver = "start"
    /\ Len(seeds) <= MaxReq
    /\ entry_points' = {key(seeds[i]) : i \in 1 .. Len(seeds)}
    /\ archive' = [k \in Keys |-> IF k \in entry_points' THEN del_by_key(archive, k)[k]
                                  ELSE archive[k]]
    /\ req' = [r \in Reqs |->
                 IF r <= Len(seeds)
                 THEN [NoReq EXCEPT !.url = seeds[r], !.discovered_in = seeds[r],
                                    !.src = "seed"]
                 ELSE req[r]]
    /\ nextReq' = Len(seeds) + 1
    /\ Commit(DeferAll(Rt, [i \in 1 .. Len(seeds) |-> HttpCall(i)]))
    /\ archiver' = "ticking"
    /\ submitter' = "waiting"
    /\ UNCHANGED <<seed_urls, max_tasks_per_worker, chanVars, auxVars>>
    /\ UNCHANGED <<permits, body, httpActor, manager, instance,
                   watch, faults>>

SeedReqs == {r \in Reqs : req[r].src = "seed"}

\* a later poll of the submitter: a reply that arrived resolves; the task
\* ends with the last one (JoinHandle::is_finished is true as well for a task
\* that ended by a panic)
SubmitterPoll(r) ==
    /\ submitter = "waiting"
    /\ r \in SeedReqs
    /\ call[HttpCall(r)].st = "replied"
    /\ LET S == Resolve(Rt, HttpCall(r))
       IN IF call[HttpCall(r)].res = "RecvError"
          THEN \* mail.request(u) panics: the task ends, the other futures are dropped
               /\ Commit(DropAll(S, {HttpCall(x) : x \in {y \in SeedReqs :
                                         S.call[HttpCall(y)].st # "resolved"}}))
               /\ submitter' = "finished"
          ELSE /\ Commit(S)
               /\ submitter' = IF \A x \in SeedReqs : S.call[HttpCall(x)].st = "resolved"
                               THEN "finished" ELSE "waiting"
    /\ UNCHANGED <<seed_urls, max_tasks_per_worker, chanVars, auxVars>>
    /\ UNCHANGED <<archiver, entry_points, permits, archive, req, nextReq, body,
                   httpActor, manager, instance, watch, faults>>

\* send_async completes once the mailbox has room
CompleteSend(c) ==
    /\ call[c].st = "sending"
    /\ Len(queue[MailboxOf(c)]) < Capacity(MailboxOf(c))
    /\ call' = [call EXCEPT ![c].st = "queued"]
    /\ queue' = [queue EXCEPT ![MailboxOf(c)] = Append(@, c)]
    /\ UNCHANGED <<seed_urls, max_tasks_per_worker, chanVars, auxVars>>
    /\ UNCHANGED <<archiver, submitter, entry_points, TASK_COUNT, permits, archive,
                   req, nextReq, body, httpActor, manager, instance,
                   watch, faults>>

\* the task spawned for a Submit frame's reply future (tokio::task::spawn(v))
WaiterResolve(r) ==
    /\ req[r].src = "submit"
    /\ call[HttpCall(r)].st = "replied"
    /\ Commit(Resolve(Rt, HttpCall(r)))
    /\ UNCHANGED <<seed_urls, max_tasks_per_worker, chanVars, auxVars>>
    /\ UNCHANGED <<archiver, submitter, entry_points, permits, archive, req,
                   nextReq, body, httpActor, manager, instance,
                   watch, faults>>

(***************************************************************************)
(* The HTTP actor (HttpClient::run_async_loop) and its fetch tasks.        *)
(***************************************************************************)
\* HttpRateLimiter::is_idle
is_idle == max_tasks_per_worker = permits

\* a semaphore that never makes the actor wait
PermitAlways == TRUE

\* Semaphore::acquire_owned can complete
PermitAvailable == permits > 0

\* recv_async, then storage.request(Retrieve(url)) up to its await
HttpRecv ==
    /\ httpActor.st = "idle"
    /\ queue[HttpBox] # <<>>
    /\ LET r == Head(queue[HttpBox])[2]
       IN /\ Commit(DeferredRequest(Dequeue(Rt, HttpBox), RetrCall(r)))
          /\ httpActor' = [st |-> "retrieving", cur |-> r]
          /\ req' = [req EXCEPT ![r].present = archive[key(req[r].url)] # NoRecord]
    /\ UNCHANGED <<seed_urls, max_tasks_per_worker, chanVars, auxVars>>
    /\ UNCHANGED <<archiver, submitter, entry_points, permits, archive, nextReq,
                   body, manager, instance, watch, faults>>

\* an actor that answers without a fetch of its own whenever the Retrieve
\* did not fail
AnsweredWithoutFetch(result) == result \in {"Some", "None"}

\* Is the storage reply Ok(StorageResponse::Retrieve(Some(res)))?
IsCached(result) == result = "Some"

\* the Retrieve reply arrives: answer from the archive, or go on to
\* limiter.acquire_owned().await
HttpRetrieved ==
    /\ httpActor.st = "retrieving"
    /\ call[RetrCall(httpActor.cur)].st = "replied"
    /\ LET r == httpActor.cur
           S == Resolve(Rt, RetrCall(r))
       IN /\ req' = [req EXCEPT ![r].retr = call[RetrCall(r)].res]
          /\ IF IsCached(call[RetrCall(r)].res)
             THEN /\ Commit(Reply(S, HttpCall(r), "Ok"))
                  /\ httpActor' = IF call[HttpCall(r)].orphan
                                  THEN \* output.send(Ok(res)).unwrap() panics
                                       [st |-> "panicked", cur |-> 0]
                                  ELSE [st |-> "idle", cur |-> 0]
             ELSE /\ Commit(S)
                  /\ httpActor' = [st |-> "acquiring", cur |-> r]
    /\ UNCHANGED <<seed_urls, max_tasks_per_worker, chanVars, auxVars>>
    /\ UNCHANGED <<archiver, submitter, entry_points, permits, archive, nextReq,
                   body, manager, instance, watch, faults>>

\* acquire_owned() completes: the fetch task is spawned with the permit moved
\* into it
HttpAcquire ==
    /\ httpActor.st = "acquiring"
    /\ PermitAvailable
    /\ permits' = permits - 1
    /\ req' = [req EXCEPT ![httpActor.cur].task = "header"]
    /\ httpActor' = [st |-> "idle", cur |-> 0]
    /\ UNCHANGED <<seed_urls, max_tasks_per_worker, chanVars, auxVars>>
    /\ UNCHANGED <<archiver, submitter, entry_points, TASK_COUNT, archive, call,
                   queue, nextReq, body, manager, instance, watch, faults>>

\* program_state.changed() wins the select: break, close()
HttpClose ==
    /\ httpActor.st = "idle"
    /\ watch.http = "Closing"
    /\ httpActor' = [st |-> "closed", cur |-> 0]
    /\ UNCHANGED <<seed_urls, max_tasks_per_worker, chanVars, auxVars>>
    /\ UNCHANGED <<archiver, submitter, entry_points, TASK_COUNT, permits, archive,
                   call, queue, req, nextReq, body, manager,
                   instance, watch, faults>>

\* What the network gives a fetch: no header within the timeout (or a
\* transport error), a body within max_body_length, or a longer one.
FetchOutcomes == {"TimedOut", "ok", "BodyTooLarge"}

\* a fetch task that keeps its permit when get returned an error
EndFetchLeaksOnError(r, S, result) ==
    /\ Commit(Reply(S, HttpCall(r), result))
    /\ req' = [req EXCEPT ![r].task = "done", ![r].stored = "none", ![r].scraped = "none"]
    /\ permits' = IF result = "Ok" THEN permits + 1 ELSE permits

\* the fetch task ends: output.send(res), drop(permit)
EndFetch(r, S, result) ==
    /\ Commit(Reply(S, HttpCall(r), result))
    /\ req' = [req EXCEPT ![r].task = "done", ![r].stored = "none", ![r].scraped = "none"]
    /\ permits' = permits + 1

\* HttpClient::get up to the join!: the header phase under the timeout; then
\* the body task is spawned and Store and Process are dispatched.  The body
\* has fewer chunks than the broadcast capacity, so broadcast_body never
\* waits for a sink: its result is fixed here.
FetchHeader(r, outcome) ==
    /\ req[r].task = "header"
    /\ Inject(outcome # "ok")
    /\ IF outcome = "TimedOut"
       THEN /\ EndFetch(r, Rt, outcome)
            /\ UNCHANGED body
       ELSE /\ body' = [body EXCEPT ![r] = outcome]
            /\ Commit(DeferAll(Rt, <<StoreCall(r), ProcCall(r)>>))
            /\ req' = [req EXCEPT ![r].task = "joined"]
            /\ UNCHANGED permits
    /\ UNCHANGED <<seed_urls, max_tasks_per_worker, chanVars, auxVars>>
    /\ UNCHANGED <<archiver, submitter, entry_points, archive, nextReq, httpActor,
                   manager, instance, watch>>

\* a get that does not look at the result of the Store
FetchResultIgnoringStore(b, stored, scraped) ==
    IF b # "ok" THEN b ELSE scraped

\* a get that does not look at the result of the scrapers
FetchResultIgnoringScraper(b, stored, scraped) ==
    IF b # "ok" THEN b ELSE stored

\* body.unwrap()?; storage?; scraper?; Ok(res)
FetchResult(b, stored, scraped) ==
    IF b # "ok" THEN b
    ELSE IF stored # "Ok" THEN stored
    ELSE scraped

\* scrapers.request(..) panics inside the join! (the ScriptManager task has
\* ended): the fetch task unwinds.  Its output Sender and its permit are
\* dropped; the Store's reply future is dropped unless it has resolved, which
\* for a reply that has arrived depends on which branch this poll of the
\* join! took first.
FetchPanics(r, S) ==
    /\ \E first \in BOOLEAN :
          LET st == StoreCall(r)
              S1 == IF S.call[st].st = "resolved" THEN S
                    ELSE IF S.call[st].st = "replied" /\ first THEN Resolve(S, st)
                    ELSE DropFuture(S, st)
          IN Commit(Reply(S1, HttpCall(r), "RecvError"))
    /\ req' = [req EXCEPT ![r].task = "panicked", ![r].stored = "none",
                          ![r].scraped = "none"]
    /\ permits' = permits + 1

\* a poll of the join!: a reply that arrived resolves; when the body task and
\* both requests are finished the task sends its reply, drops the permit and ends
FetchPoll(r, c) ==
    /\ req[r].task = "joined"
    /\ c \in {StoreCall(r), ProcCall(r)}
    /\ call[c].st = "replied"
    /\ LET S == Resolve(Rt, c)
           stored == IF c = StoreCall(r) THEN call[c].res ELSE req[r].stored
           scraped == IF c = ProcCall(r) THEN call[c].res ELSE req[r].scraped
       IN IF call[c].res = "RecvError"
          THEN FetchPanics(r, S)
          ELSE IF stored # "none" /\ scraped # "none"
          THEN EndFetch(r, S, FetchResult(body[r], stored, scraped))
          ELSE /\ Commit(S)
               /\ req' = [req EXCEPT ![r].stored = stored, ![r].scraped = scraped]
               /\ UNCHANGED permits
    /\ UNCHANGED <<seed_urls, max_tasks_per_worker, chanVars, auxVars>>
    /\ UNCHANGED <<archiver, submitter, entry_points, archive, nextReq, body,
                   httpActor, manager, instance, watch, faults>>

(***************************************************************************)
(* The storage actor (Storage::answer_request).  Neither request waits for *)
(* another task (the body of a Store is complete or failed by the time its *)
(* fetch task dispatched it), so the actor answers a message in one step.  *)
(***************************************************************************)
\* Storage::retrieve_by_key: Ok(Some), Ok(None) or a cache/codec error
RetrieveOutcomes(k) ==
    IF archive[k] # NoRecord THEN {"Some", "IO"} ELSE {"None", "IO"}

\* recv_async of a Retrieve: answered and replied without waiting for anyone
StorageRetrieve(outcome) ==
    /\ queue[StorageBox] # <<>>
    /\ LET c == Head(queue[StorageBox])
       IN /\ c[1] = "retr"
          /\ outcome \in RetrieveOutcomes(key(req[c[2]].url))
          /\ Inject(outcome = "IO")
          /\ Commit(Reply(Dequeue(Rt, StorageBox), c, outcome))
    /\ UNCHANGED <<seed_urls, max_tasks_per_worker, chanVars, auxVars>>
    /\ UNCHANGED <<archiver, submitter, entry_points, permits, archive, req,
                   nextReq, body, httpActor, manager, instance, watch>>

\* a store that commits whatever it has read when the body stream ends
CommitsOnBodyError(b, io) == ~io

\* a store that commits although a write failed
CommitsOnIoError(b, io) == b = "ok"

\* Storage::write_by_key: the record is committed only after the body stream
\* ended without error and every write succeeded
StoreCommits(b, io) == b = "ok" /\ ~io

\* recv_async of a Store: write_by_key reads the body to its end, commits or
\* gives up, and the reply is sent
StorageStore(io) ==
    /\ queue[StorageBox] # <<>>
    /\ Head(queue[StorageBox])[1] = "store"
    /\ Inject(io)
    /\ LET r == Head(queue[StorageBox])[2]
       IN /\ archive' = IF StoreCommits(body[r], io)
                        THEN [archive EXCEPT ![key(req[r].url)] = r]
                        ELSE archive
          /\ Commit(Reply(Dequeue(Rt, StorageBox), StoreCall(r),
                          IF io THEN "IO" ELSE IF body[r] = "ok" THEN "Ok" ELSE body[r]))
    /\ UNCHANGED <<seed_urls, max_tasks_per_worker, chanVars, auxVars>>
    /\ UNCHANGED <<archiver, submitter, entry_points, permits, req, nextReq, body,
                   httpActor, manager, instance, watch>>

(***************************************************************************)
(* The scraper manager (ScriptManager::process).                           *)
(***************************************************************************)
Matched(r) == {s \in Scripts : matches(s, r)}

\* recv_async, then the first poll of the FuturesUnordered of script requests
ManagerRecv ==
    /\ manager.st = "idle"
    /\ queue[ManagerBox] # <<>>
    /\ LET r == Head(queue[ManagerBox])[2]
           ss == SetToSeq(Matched(r))
           S == DeferAll(Dequeue(Rt, ManagerBox), [i \in 1 .. Len(ss) |-> ScriptCall(r, ss[i])])
       IN IF Matched(r) = {}
          THEN /\ Commit(Reply(S, ProcCall(r), "Ok"))
               /\ UNCHANGED manager
          ELSE /\ Commit(S)
               /\ manager' = [st |-> "busy", cur |-> r, ready |-> <<>>]
    /\ UNCHANGED <<seed_urls, max_tasks_per_worker, chanVars, auxVars>>
    /\ UNCHANGED <<archiver, submitter, entry_points, permits, archive, req,
                   nextReq, body, httpActor, instance, watch, faults>>

\* The request futures still pending when process() returns on `v?`: they
\* are dropped with the FuturesUnordered.
Abandoned(r, s) ==
    {ScriptCall(r, x) : x \in {y \in Matched(r) \ {s} : call[ScriptCall(r, y)].st # "resolved"}}

\* stream.next() yields the next finished request: Err returns at once (v?),
\* the last Ok returns Ok(())
ManagerPoll ==
    /\ manager.st = "busy"
    /\ manager.ready # <<>>
    /\ LET r == manager.cur
           s == Head(manager.ready)
           c == ScriptCall(r, s)
           S == Resolve(Rt, c)
       IN IF call[c].res = "RecvError"
          THEN \* the instance's task has ended: v.await.unwrap() panics
               ManagerPanics(Reply(DropAll(S, Abandoned(r, s)), ProcCall(r), "RecvError"))
          ELSE /\ UNCHANGED instance
               /\ IF call[c].res # "Ok"
                  THEN /\ Commit(Reply(DropAll(S, Abandoned(r, s)), ProcCall(r), call[c].res))
                       /\ manager' = [st |-> "idle", cur |-> 0, ready |-> <<>>]
                  ELSE IF \A x \in Matched(r) : S.call[ScriptCall(r, x)].st = "resolved"
                       THEN /\ Commit(Reply(S, ProcCall(r), "Ok"))
                            /\ manager' = [st |-> "idle", cur |-> 0, ready |-> <<>>]
                       ELSE /\ Commit(S)
                            /\ manager' = [manager EXCEPT !.ready = Tail(@)]
    /\ UNCHANGED <<seed_urls, max_tasks_per_worker, chanVars, auxVars>>
    /\ UNCHANGED <<archiver, submitter, entry_points, permits, archive, req,
                   nextReq, body, httpActor, watch, faults>>

\* shutdown observed in the select: close_all sends Closing to every instance
ManagerClose ==
    /\ manager.st = "idle"
    /\ watch.scripts = "Closing"
    /\ IF \E i \in Instances : instance[i].st = "panicked"
       THEN \* a Script without a running instance: state.send(Closing).unwrap()
            \* panics in close_all
            /\ ManagerPanics(Rt)
            /\ UNCHANGED watch
       ELSE /\ manager' = [manager EXCEPT !.st = "closing"]
            /\ watch' = [watch EXCEPT !.inst = "Closing"]
            /\ UNCHANGED <<TASK_COUNT, call, queue, instance>>
    /\ UNCHANGED <<seed_urls, max_tasks_per_worker, chanVars, auxVars>>
    /\ UNCHANGED <<archiver, submitter, entry_points, permits, archive,
                   req, nextReq, body, httpActor, faults>>

\* close_all returns when every Script's instances have been joined
ManagerJoined ==
    /\ manager.st = "closing"
    /\ \A i \in Instances : instance[i].st = "closed"
    /\ manager' = [manager EXCEPT !.st = "closed"]
    /\ UNCHANGED <<seed_urls, max_tasks_per_worker, chanVars, auxVars>>
    /\ UNCHANGED <<archiver, submitter, entry_points, TASK_COUNT, permits, archive,
                   call, queue, req, nextReq, body, httpActor, instance, watch, faults>>

(***************************************************************************)
(* The script instances (ScriptInstance::submit).                          *)
(***************************************************************************)
\* submit() returns: the actor loop sends the reply; the manager's request
\* future, if it still exists, is woken
InstReply(i, S, result) ==
    LET c == ScriptCall(instance[i].cur, i[1])
    IN /\ Commit(Reply(S, c, result))
       /\ instance' = [instance EXCEPT ![i] = IdleInstance]
       /\ manager' = IF call[c].orphan THEN manager
                     ELSE [manager EXCEPT !.ready = Append(@, i[1])]

\* an instance that takes a message whenever it is reading frames too
IdleOrReading(i) == instance[i].st \in {"idle", "frames"}

\* the instance's loop is in its select!, not inside answer()
Idle(i) == instance[i].st = "idle"

\* the instance's task panics while it answers a message
InstPanics(i, S) ==
    LET c == ScriptCall(instance[i].cur, i[1])
    IN /\ Commit(Reply(S, c, "RecvError"))
       /\ instance' = [instance EXCEPT ![i] = DeadInstance("panicked")]
       /\ manager' = IF call[c].orphan THEN manager
                     ELSE [manager EXCEPT !.ready = Append(@, i[1])]

\* recv_async, then proc_in.submit(&data): the Submit frame is written with
\* the whole body, or the body stream or the pipe fails and submit returns
InstRecv(i, io) ==
    /\ Idle(i)
    /\ queue[ScriptBox(i[1])] # <<>>
    /\ Inject(io)
    /\ LET c == Head(queue[ScriptBox(i[1])])
           r == c[2]
           S == Dequeue(Rt, ScriptBox(i[1]))
       IN IF ~io /\ body[r] = "ok"
          THEN /\ Commit(S)
               /\ instance' = [instance EXCEPT ![i] = [st |-> "frames", cur |-> r, child |-> 0]]
               /\ UNCHANGED manager
          ELSE /\ Commit(Reply(S, c, IF io THEN "IO" ELSE body[r]))
               /\ UNCHANGED instance
               /\ manager' = IF call[c].orphan THEN manager
                             ELSE [manager EXCEPT !.ready = Append(@, i[1])]
    /\ UNCHANGED <<seed_urls, max_tasks_per_worker, chanVars, auxVars>>
    /\ UNCHANGED <<archiver, submitter, entry_points, permits, archive, req,
                   nextReq, body, httpActor, watch>>

\* the instance is in read_op, not blocked in a send_async of an earlier Submit
ReadingFrames(i) ==
    /\ instance[i].st = "frames"
    /\ IF instance[i].child = 0 THEN TRUE
       ELSE call[HttpCall(instance[i].child)].st # "sending"

\* the subprocess has crashed (end of file on its output) or sends a byte
\* that is no opcode: read_op returns Err and read_op().await.unwrap() panics
InstCrash(i) ==
    /\ ReadingFrames(i)
    /\ Inject(TRUE)
    /\ InstPanics(i, Rt)
    /\ UNCHANGED <<seed_urls, max_tasks_per_worker, chanVars, auxVars>>
    /\ UNCHANGED <<archiver, submitter, entry_points, permits, archive, req,
                   nextReq, body, httpActor, watch>>

\* EndFile
InstEndFile(i) ==
    /\ ReadingFrames(i)
    /\ InstReply(i, Rt, "Ok")
    /\ UNCHANGED <<seed_urls, max_tasks_per_worker, chanVars, auxVars>>
    /\ UNCHANGED <<archiver, submitter, entry_points, permits, archive, req,
                   nextReq, body, httpActor, watch, faults>>

\* a Submit arm that skips a URL already at max_hops
SubmitDroppedAtMaxHops(u) == u.hops >= max_hops

\* Does the Submit arm skip the URL after hop resolution?
SubmitDropped(u) == u.hops > max_hops

\* a new UrlInfo goes to the HTTP actor: client.deferred_request(url)
NewRequest(i, x, src) ==
    /\ nextReq <= MaxReq
    /\ req' = [req EXCEPT ![nextReq] =
                 LET u == hop(MetaUrl(instance[i].cur), x)
                 IN [NoReq EXCEPT !.url = u.url, !.discovered_in = u.discovered_in,
                                  !.hops = u.hops, !.src = src]]
    /\ nextReq' = nextReq + 1
    /\ Commit(DeferredRequest(Rt, HttpCall(nextReq)))

\* Submit { url }
InstSubmitFrame(i, x) ==
    /\ ReadingFrames(i)
    /\ IF hop(MetaUrl(instance[i].cur), x) = None
          \/ SubmitDropped(hop(MetaUrl(instance[i].cur), x))
       THEN UNCHANGED <<TASK_COUNT, call, queue, req, nextReq, instance>>
       ELSE /\ NewRequest(i, x, "submit")
            /\ instance' = [instance EXCEPT ![i].child = nextReq]
    /\ UNCHANGED <<seed_urls, max_tasks_per_worker, chanVars, auxVars>>
    /\ UNCHANGED <<archiver, submitter, entry_points, permits, archive, body,
                   httpActor, manager, watch, faults>>

\* Fetch { url }
InstFetchFrame(i, x, io) ==
    /\ ReadingFrames(i)
    /\ Inject(io)
    /\ IF hop(MetaUrl(instance[i].cur), x) = None
       THEN /\ IF io
               THEN InstReply(i, Rt, "IO")
               ELSE UNCHANGED <<TASK_COUNT, call, queue, manager, instance>>
            /\ UNCHANGED <<req, nextReq>>
       ELSE /\ ~io
            /\ NewRequest(i, x, "fetch")
            /\ instance' = [instance EXCEPT ![i].child = nextReq, ![i].st = "fetchwait"]
            /\ UNCHANGED manager
    /\ UNCHANGED <<seed_urls, max_tasks_per_worker, chanVars, auxVars>>
    /\ UNCHANGED <<archiver, submitter, entry_points, permits, archive, body,
                   httpActor, watch>>

\* the reply of client.request(url) arrives: answer_fetch or error_fetch
InstFetchReply(i, io) ==
    /\ instance[i].st = "fetchwait"
    /\ call[HttpCall(instance[i].child)].st = "replied"
    /\ Inject(io)
    /\ LET r == instance[i].child
           S == Resolve(Rt, HttpCall(r))
       IN IF call[HttpCall(r)].res = "RecvError"
          THEN \* the fetch task has panicked: client.request(url) panics
               /\ ~io
               /\ InstPanics(i, S)
               /\ UNCHANGED req
          ELSE IF io
          THEN /\ InstReply(i, S, "IO")
               /\ req' = [req EXCEPT ![r].answer = "failed"]
          ELSE /\ Commit(S)
               /\ instance' = [instance EXCEPT ![i].st = "frames", ![i].child = 0]
               /\ req' = [req EXCEPT ![r].answer =
                            IF call[HttpCall(r)].res = "Ok" THEN "ok" ELSE "err"]
               /\ UNCHANGED manager
    /\ UNCHANGED <<seed_urls, max_tasks_per_worker, chanVars, auxVars>>
    /\ UNCHANGED <<archiver, submitter, entry_points, permits, archive, nextReq,
                   body, httpActor, watch>>

\* shutdown observed in the select: close_script writes CloseScript
InstClose(i) ==
    /\ Idle(i)
    /\ watch.inst = "Closing"
    /\ instance' = [instance EXCEPT ![i].st = "closed"]
    /\ UNCHANGED <<seed_urls, max_tasks_per_worker, chanVars, auxVars>>
    /\ UNCHANGED <<archiver, submitter, entry_points, TASK_COUNT, permits, archive,
                   call, queue, req, nextReq, body, httpActor, manager, watch, faults>>

(***************************************************************************)
(* run_archiver: the quiescence loop and the shutdown.                     *)
(***************************************************************************)
\* a tick that looks at the submitter only
SubmitterFinished == submitter = "finished"

\* the condition of the tick that breaks the loop
Quiescent == submitter = "finished" /\ TASK_COUNT = 0

\* a tick that sees the condition: break, script_runner.close_and_join starts
ArchiverTick ==
    /\ archiver = "ticking"
    /\ Quiescent
    /\ IF manager.st = "panicked"
       THEN \* no receiver is left: state.send(Closing).unwrap() panics
            /\ archiver' = "panicked"
            /\ UNCHANGED watch
       ELSE /\ archiver' = "close_scripts"
            /\ watch' = [watch EXCEPT !.scripts = "Closing"]
    /\ UNCHANGED <<seed_urls, max_tasks_per_worker, chanVars, auxVars>>
    /\ UNCHANGED <<submitter, entry_points, TASK_COUNT, permits, archive, call,
                   queue, req, nextReq, body, httpActor, manager,
                   instance, faults>>

\* the scraper manager task has ended (join_next returns for a task that
\* panicked as well); http_manager.close_and_join starts
ArchiverJoinScripts ==
    /\ archiver = "close_scripts"
    /\ manager.st \in {"closed", "panicked"}
    /\ IF httpActor.st = "panicked"
       THEN /\ archiver' = "panicked"
            /\ UNCHANGED watch
       ELSE /\ archiver' = "close_http"
            /\ watch' = [watch EXCEPT !.http = "Closing"]
    /\ UNCHANGED <<seed_urls, max_tasks_per_worker, chanVars, auxVars>>
    /\ UNCHANGED <<submitter, entry_points, TASK_COUNT, permits, archive, call,
                   queue, req, nextReq, body, httpActor, manager,
                   instance, faults>>

\* the HTTP actor task is joined; run_archiver returns Ok(())
ArchiverJoinHttp ==
    /\ archiver = "close_http"
    /\ httpActor.st = "closed"
    /\ archiver' = "done"
    /\ UNCHANGED <<seed_urls, max_tasks_per_worker, chanVars, auxVars>>
    /\ UNCHANGED <<submitter, entry_points, TASK_COUNT, permits, archive, call,
                   queue, req, nextReq, body, httpActor, manager,
                   instance, watch, faults>>

Next ==
    \/ ArchiverStart(seed_urls)
    \/ \E r \in Reqs : SubmitterPoll(r)
    \/ \E c \in CallIds : CompleteSend(c)
    \/ \E r \in Reqs : WaiterResolve(r)
    \/ HttpRecv
    \/ HttpRetrieved
    \/ HttpAcquire
    \/ HttpClose
    \/ \E r \in Reqs, o \in FetchOutcomes : FetchHeader(r, o)
    \/ \E r \in Reqs, c \in CallIds : FetchPoll(r, c)
    \/ \E o \in {"Some", "None", "IO"} : StorageRetrieve(o)
    \/ \E io \in BOOLEAN : StorageStore(io)
    \/ ManagerRecv
    \/ ManagerPoll
    \/ ManagerClose
    \/ ManagerJoined
    \/ \E i \in Instances, io \in BOOLEAN : InstRecv(i, io)
    \/ \E i \in Instances : InstCrash(i)
    \/ \E i \in Instances : InstEndFile(i)
    \/ \E i \in Instances, x \in Urls \cup {InvalidUrl} : InstSubmitFrame(i, x)
    \/ \E i \in Instances, x \in Urls \cup {InvalidUrl}, io \in BOOLEAN : InstFetchFrame(i, x, io)
    \/ \E i \in Instances, io \in BOOLEAN : InstFetchReply(i, io)
    \/ \E i \in Instances : InstClose(i)
    \/ ArchiverTick
    \/ ArchiverJoinScripts
    \/ ArchiverJoinHttp

Spec == Init /\ [][Next]_vars

SpecTwoPermits == InitTwoPermits /\ [][Next]_vars

SpecRepeatedSeeds == InitRepeatedSeeds /\ [][Next]_vars


(***************************************************************************)
(* One body channel: async_broadcast::broadcast(1024) with its producer    *)
(* (broadcast_body, or the blocking re-stream of retrieve_by_key) and its  *)
(* Receiver handles.  Overflow mode is off (the default, never changed):   *)
(* a message leaves the queue when every live Receiver has read it, and a  *)
(* broadcast into a full queue waits.                                      *)
(***************************************************************************)
\* the message that carries the terminal error
ErrMsg == 0
\* the Receiver stored in the HttpResponse that get / retrieve_by_key returns
Origin == "res"
\* the handles that are read: write_by_key's and write_res's
Sinks == {"store", "script"}
\* "fetched": HttpClient::get; "cached": Storage::retrieve_by_key
Modes == {"fetched", "cached"}
\* how the source of the body ends: end of data, or an error (a read error,
\* or a chunk that takes the body over max_body_length)
Ends == {"eof", "error"}

NoReceiver == [live |-> FALSE, started |-> FALSE, pos |-> 0, seen |-> <<>>, term |-> "none"]

\* the crawl's variables are not followed in the body channel's specification
PipeIdle == PipeStart([k \in Keys |-> NoRecord], 1)

ChanStart(mode, n, end) ==
    /\ pump = [st |-> "running", n |-> n, end |-> end, next |-> 1, mode |-> mode]
    /\ chan = [q |-> <<>>, head |-> 0, closed |-> FALSE, sent |-> <<>>]
    /\ rcv = [h \in {Origin} \cup Sinks |->
                IF h = Origin THEN [NoReceiver EXCEPT !.live = TRUE, !.started = TRUE]
                ELSE NoReceiver]

BodyInit ==
    /\ seed_urls = <<>>
    /\ PipeIdle
    /\ AuxIdle
    /\ \E mode \in Modes, n \in 0 .. MaxChunks, end \in Ends : ChanStart(mode, n, end)

Live(rc) == {h \in DOMAIN rc : rc[h].live}

RECURSIVE Pop(_, _)
\* messages every live Receiver has read leave the queue
Pop(ch, rc) ==
    IF ch.q # <<>> /\ \A h \in Live(rc) : rc[h].pos > ch.head
    THEN Pop([ch EXCEPT !.q = Tail(@), !.head = @ + 1], rc)
    ELSE ch

\* the last Receiver dropped closes the channel
AfterRead(ch, rc) ==
    IF Live(rc) = {} THEN [ch EXCEPT !.q = <<>>, !.closed = TRUE] ELSE Pop(ch, rc)

\* Sender::broadcast(msg).await can complete: room in the queue, or a closed
\* channel (the error is ignored by the producer)
CanBroadcast == chan.closed \/ Len(chan.q) < ChanCapacity

Broadcast(ch, msg) ==
    IF ch.closed THEN ch
    ELSE [ch EXCEPT !.q = Append(@, msg), !.sent = Append(@, msg)]

\* Ok(Some(chunk)) within the limit: into.broadcast(Ok(chunk)).await
BroadcastChunk ==
    /\ pump.st = "running"
    /\ pump.next <= pump.n
    /\ CanBroadcast
    /\ chan' = Broadcast(chan, pump.next)
    /\ pump' = [pump EXCEPT !.next = @ + 1]
    /\ UNCHANGED <<rcv, pipeVars, auxVars>>

\* Err(e), or a chunk over max_length: broadcast(Err(..)).await, close, return Err
BroadcastError ==
    /\ pump.st = "running"
    /\ pump.next > pump.n
    /\ pump.end = "error"
    /\ CanBroadcast
    /\ chan' = [Broadcast(chan, ErrMsg) EXCEPT !.closed = TRUE]
    /\ pump' = [pump EXCEPT !.st = "done"]
    /\ UNCHANGED <<rcv, pipeVars, auxVars>>

\* Ok(None): into.close(), return Ok(())
BroadcastEnd ==
    /\ pump.st = "running"
    /\ pump.next > pump.n
    /\ pump.end = "eof"
    /\ chan' = [chan EXCEPT !.closed = TRUE]
    /\ pump' = [pump EXCEPT !.st = "done"]
    /\ UNCHANGED <<rcv, pipeVars, auxVars>>

\* Sender::new_receiver: a Receiver that sees only later messages
NewReceiverPos(h) == chan.head + Len(chan.q)

\* Receiver::clone: the clone has the same messages queued as the original
ClonePos(h) == rcv[h].pos

\* a sink gets its handle: res.clone() for the Store and for each script,
\* res.body.clone() in write_res
SinkClone(s) ==
    /\ ~rcv[s].started
    /\ rcv[Origin].live
    /\ rcv' = [rcv EXCEPT ![s] = [NoReceiver EXCEPT !.live = TRUE, !.started = TRUE,
                                                    !.pos = ClonePos(Origin)]]
    /\ UNCHANGED <<pump, chan, pipeVars, auxVars>>

\* body.try_next().await in a sink returns: a chunk, the error, or None
SinkNext(s) ==
    /\ rcv[s].live
    /\ LET i == rcv[s].pos - chan.head + 1
       IN IF i <= Len(chan.q)
          THEN LET rc == IF chan.q[i] = ErrMsg
                         THEN [rcv EXCEPT ![s].term = "err", ![s].live = FALSE]
                         ELSE [rcv EXCEPT ![s].seen = Append(@, chan.q[i]),
                                          ![s].pos = @ + 1]
               IN /\ rcv' = rc
                  /\ chan' = AfterRead(chan, rc)
          ELSE /\ chan.closed
               /\ rcv' = [rcv EXCEPT ![s].term = "eos", ![s].live = FALSE]
               /\ chan' = AfterRead(chan, rcv')
    /\ UNCHANGED <<pump, pipeVars, auxVars>>

\* The HttpResponse that holds the original Receiver is dropped: by get when
\* its join! has ended ("fetched"), by the requester when it is finished
\* with the response ("cached").
OriginDrop ==
    /\ rcv[Origin].live
    /\ \A s \in Sinks : rcv[s].started => ~rcv[s].live
    /\ pump.mode = "fetched" => pump.st = "done" /\ rcv["store"].started
    /\ rcv' = [rcv EXCEPT ![Origin].live = FALSE]
    /\ chan' = AfterRead(chan, rcv')
    /\ UNCHANGED <<pump, pipeVars, auxVars>>

BodyNext ==
    \/ BroadcastChunk
    \/ BroadcastError
    \/ BroadcastEnd
    \/ \E s \in Sinks : SinkClone(s)
    \/ \E s \in Sinks : SinkNext(s)
    \/ OriginDrop

BodySpec == BodyInit /\ [][BodyNext]_vars

(***************************************************************************)
(* broadcast_body with its count of received bytes: the chunks of one      *)
(* network response have lengths, and max_body_length may be set.          *)
(***************************************************************************)
ChunkLists == UNION {[1 .. n -> 1 .. MaxChunkLen] : n \in 0 .. MaxChunks}
\* Option<usize>: <<>> is None
MaxLengths == {<<>>} \cup {<<n>> : n \in 0 .. MaxLength}

\* a count that never moves
keep_received(received, len) == received

\* received += chunk.len()
add_len(received, len) == received + len

LimitInit ==
    /\ seed_urls = <<>>
    /\ PipeIdle
    /\ HopIdle
    /\ StoreIdle
    /\ SurtIdle
    /\ FilterIdle
    /\ ActorIdle
    /\ WriterIdle
    /\ ExportIdle
    /\ \E chunks \in ChunkLists, max_length \in MaxLengths, end \in Ends :
           /\ ChanStart("fetched", Len(chunks), end)
           /\ stream = [chunks |-> chunks, max_length |-> max_length,
                      received |-> 0, err |-> "none"]

\* one turn of the loop of broadcast_body: body.try_next().await and the arm
\* of the match that its result selects
BroadcastBody ==
    /\ pump.st = "running"
    /\ CanBroadcast
    /\ IF pump.next <= Len(stream.chunks)
       THEN LET received == add_len(stream.received, stream.chunks[pump.next])
            IN  IF stream.max_length # <<>> /\ received > stream.max_length[1]
                THEN /\ chan' = [Broadcast(chan, ErrMsg) EXCEPT !.closed = TRUE]
                     /\ pump' = [pump EXCEPT !.st = "done"]
                     /\ stream' = [stream EXCEPT !.received = received,
                                             !.err = "BodyTooLarge"]
                ELSE /\ chan' = Broadcast(chan, pump.next)
                     /\ pump' = [pump EXCEPT !.next = @ + 1]
                     /\ stream' = [stream EXCEPT !.received = received]
       ELSE IF pump.end = "eof"
            THEN /\ chan' = [chan EXCEPT !.closed = TRUE]
                 /\ pump' = [pump EXCEPT !.st = "done"]
                 /\ UNCHANGED stream
            ELSE /\ chan' = [Broadcast(chan, ErrMsg) EXCEPT !.closed = TRUE]
                 /\ pump' = [pump EXCEPT !.st = "done"]
                 /\ stream' = [stream EXCEPT !.err = "Client"]
    /\ UNCHANGED <<rcv, pipeVars, hopVars, storeVars, surtVars, filterVars, actorVars, writerVars, exportVars>>

LimitNext ==
    \/ BroadcastBody
    \/ \E s \in Sinks : SinkClone(s)
    \/ \E s \in Sinks : SinkNext(s)
    \/ OriginDrop

LimitSpec == LimitInit /\ [][LimitNext]_vars

(***************************************************************************)
(* One discovery chain: a seed's UrlInfo as run_archiver builds it, and    *)
(* the UrlInfo::hop that ScriptInstance::submit makes for each URL string  *)
(* a script writes while it processes the response of the chain's end.     *)
(***************************************************************************)
\* the crawl and the body channel are not followed
CrawlIdle ==
    /\ seed_urls = <<>>
    /\ PipeIdle
    /\ ChanIdle

HopInit ==
    /\ CrawlIdle
    /\ AuxIdle

\* run_archiver: the UrlInfo of a seed
SeedInfo(v) ==
    /\ chain = <<>>
    /\ chain' = <<[url |-> v, discovered_in |-> v, hops |-> 0]>>
    /\ UNCHANGED <<hopped, pipeVars, chanVars, storeVars, surtVars, filterVars, limitVars, actorVars, writerVars, exportVars>>

\* data.meta.url.clone().hop(&url) for the string of a Submit or Fetch
\* frame; the URL it yields is requested and its response processed in turn
Hop(new_url) ==
    /\ chain # <<>>
    /\ LET self == chain[Len(chain)]
           out == hop(self, new_url)
       IN /\ out # None => Len(chain) < MaxChain
          /\ hopped' = [self |-> self, new_url |-> new_url, out |-> out, called |-> TRUE]
          /\ chain' = IF out = None THEN chain ELSE Append(chain, out)
    /\ UNCHANGED <<pipeVars, chanVars, storeVars, surtVars, filterVars, limitVars, actorVars, writerVars, exportVars>>

HopNext ==
    \/ \E v \in AllUrls : SeedInfo(v)
    \/ \E s \in UrlStrings : Hop(s)

HopSpec == HopInit /\ [][HopNext]_vars

(***************************************************************************)
(* One discovery chain with the two arms of ScriptInstance::submit told    *)
(* apart: a Submit frame's UrlInfo is dropped over max_hops, a Fetch       *)
(* frame's is requested as hop returns it.  The chain holds the UrlInfo    *)
(* values sent to the HTTP actor; the response of each is handed to the    *)
(* scripts in turn (HttpClient::get).                                      *)
(***************************************************************************)
\* Submit { url }: hop, the max_hops test, client.deferred_request(url)
ChainSubmit(new_url) ==
    /\ chain # <<>>
    /\ LET self == chain[Len(chain)]
           out == hop(self, new_url)
           sent == out # None /\ ~SubmitDropped(out)
       IN /\ sent => Len(chain) < MaxChain
          /\ hopped' = [self |-> self, new_url |-> new_url, out |-> out, called |-> TRUE]
          /\ chain' = IF sent THEN Append(chain, out) ELSE chain
    /\ UNCHANGED <<pipeVars, chanVars, storeVars, surtVars, filterVars, limitVars, actorVars, writerVars, exportVars>>

\* Fetch { url }: hop, then client.request(url), or error_fetch("invalid_url")
ChainFetch(new_url) ==
    /\ chain # <<>>
    /\ LET self == chain[Len(chain)]
           out == hop(self, new_url)
       IN /\ out # None => Len(chain) < MaxChain
          /\ hopped' = [self |-> self, new_url |-> new_url, out |-> out, called |-> TRUE]
          /\ chain' = IF out = None THEN chain ELSE Append(chain, out)
    /\ UNCHANGED <<pipeVars, chanVars, storeVars, surtVars, filterVars, limitVars, actorVars, writerVars, exportVars>>

FrameNext ==
    \/ \E v \in AllUrls : SeedInfo(v)
    \/ \E s \in UrlStrings : ChainSubmit(s)
    \/ \E s \in UrlStrings : ChainFetch(s)

FrameSpec == HopInit /\ [][FrameNext]_vars

(***************************************************************************)
(* One response through the storage: Storage::write_by_key puts it under   *)
(* its key, Storage::retrieve_by_key reads it back and re-streams the body *)
(* over a new broadcast channel, which the requester reads as in BodySpec. *)
(***************************************************************************)
Bytes == {0, 1}
Bodies == UNION {[1 .. n -> Bytes] : n \in 0 .. MaxBody}

RECURSIVE Chunkings(_)
\* the ways a body can arrive as a sequence of non-empty chunks
Chunkings(b) ==
    IF b = <<>> THEN {<<>>}
    ELSE UNION {{<<SubSeq(b, 1, k)>> \o c : c \in Chunkings(SubSeq(b, k + 1, Len(b)))} :
                  k \in 1 .. Len(b)}

RECURSIVE Concat(_)
Concat(cs) == IF cs = <<>> THEN <<>> ELSE Head(cs) \o Concat(Tail(cs))

RECURSIVE Split(_, _)
\* a byte string in pieces of at most k bytes
Split(b, k) ==
    IF b = <<>> THEN <<>>
    ELSE IF Len(b) <= k THEN <<b>>
    ELSE <<SubSeq(b, 1, k)>> \o Split(SubSeq(b, k + 1, Len(b)), k)

\* the metadata of the responses: a seed's and a discovered URL's, with a
\* header that has one value and one that has two
Metas ==
    {[url |-> [url |-> 1, discovered_in |-> 1, hops |-> 0], status |-> 200,
      headers |-> [ct |-> <<"text/html">>]],
     [url |-> [url |-> 5, discovered_in |-> 1, hops |-> 1], status |-> 404,
      headers |-> [ct |-> <<"text/html">>, sc |-> <<"a=1", "b=2">>]]}

\* Url as a string (its serialization), and Url::parse of it
as_str(u) == UrlTable[u]
parse(s) == CHOOSE u \in AllUrls : UrlTable[u] = s

\* serde_json::to_value(meta): URLs as strings, the status as a number, a
\* header as a string if it has one value and as a list if it has more
to_value(meta) ==
    [url |-> [url |-> as_str(meta.url.url),
              discovered_in |-> as_str(meta.url.discovered_in),
              hops |-> meta.url.hops],
     status |-> meta.status,
     headers |-> [h \in DOMAIN meta.headers |->
                    IF Len(meta.headers[h]) = 1
                    THEN [one |-> meta.headers[h][1]]
                    ELSE [many |-> meta.headers[h]]]]

\* serde_json::from_value(metadata.metadata)
from_value(json) ==
    [url |-> [url |-> parse(json.url.url),
              discovered_in |-> parse(json.url.discovered_in),
              hops |-> json.url.hops],
     status |-> json.status,
     headers |-> [h \in DOMAIN json.headers |->
                    IF "one" \in DOMAIN json.headers[h]
                    THEN <<json.headers[h].one>>
                    ELSE json.headers[h].many]]

\* FrameEncoder: write_all of every chunk, finish: the blocks of the frame
FrameEncoder(chunks) == Split(Concat(chunks), BlockSize)

\* buffer.truncate(n)
truncate(buffer, n) == SubSeq(buffer, 1, n)

\* one decoder.read(&mut buffer) into a zeroed buffer: the bytes read from
\* what is left of a block
ReadInto(left) ==
    LET n == IF Len(left) < BufferSize THEN Len(left) ELSE BufferSize
        buffer == [i \in 1 .. BufferSize |-> IF i <= n THEN left[i] ELSE 0]
    IN truncate(buffer, n)

RECURSIVE ReadBlock(_)
\* the chunks the re-stream makes of one block
ReadBlock(left) ==
    IF left = <<>> THEN <<>>
    ELSE <<ReadInto(left)>>
         \o ReadBlock(SubSeq(left, (IF Len(left) < BufferSize THEN Len(left) ELSE BufferSize) + 1,
                              Len(left)))

RECURSIVE FrameDecoder(_)
\* the chunks the re-stream broadcasts until decoder.read returns 0
FrameDecoder(frame) ==
    IF frame = <<>> THEN <<>> ELSE ReadBlock(Head(frame)) \o FrameDecoder(Tail(frame))

StoreInit ==
    /\ CrawlIdle
    /\ HopIdle
    /\ SurtIdle
    /\ FilterIdle
    /\ LimitIdle
    /\ ActorIdle
    /\ WriterIdle
    /\ ExportIdle
    /\ \E m \in Metas, b \in Bodies : \E cs \in Chunkings(b) :
          response = [meta |-> m, chunks |-> cs]
    /\ record = [committed |-> FALSE, metadata |-> <<>>, frame |-> <<>>]
    /\ retrieved = [called |-> FALSE, meta |-> NoMeta, chunks |-> <<>>]

\* Storage::write_by_key of a body that arrives complete, every write
\* succeeding: the metadata as JSON, the chunks through the encoder, commit
write_by_key ==
    /\ ~record.committed
    /\ record' = [committed |-> TRUE,
                  metadata |-> to_value(response.meta),
                  frame |-> FrameEncoder(response.chunks)]
    /\ UNCHANGED <<response, retrieved, pipeVars, chanVars, hopVars, surtVars, filterVars, limitVars, actorVars, writerVars, exportVars>>

\* Storage::retrieve_by_key of the key: the metadata is parsed, the channel
\* made and the blocking re-stream task spawned
retrieve_by_key ==
    /\ record.committed
    /\ ~retrieved.called
    /\ retrieved' = [called |-> TRUE, meta |-> from_value(record.metadata),
                     chunks |-> FrameDecoder(record.frame)]
    /\ pump' = [st |-> "running", n |-> Len(retrieved'.chunks), end |-> "eof",
                next |-> 1, mode |-> "cached"]
    /\ chan' = [q |-> <<>>, head |-> 0, closed |-> FALSE, sent |-> <<>>]
    /\ rcv' = [h \in {Origin} \cup Sinks |->
                 IF h = Origin THEN [NoReceiver EXCEPT !.live = TRUE, !.started = TRUE]
                 ELSE NoReceiver]
    /\ UNCHANGED <<response, record, pipeVars, hopVars, surtVars, filterVars, limitVars, actorVars, writerVars, exportVars>>

\* the re-stream ends with the frame: decoder.read returns 0
StoreNext ==
    \/ write_by_key
    \/ retrieve_by_key
    \/ retrieved.called /\ BroadcastChunk
    \/ retrieved.called /\ BroadcastEnd
    \/ \E s \in Sinks : retrieved.called /\ SinkClone(s)
    \/ \E s \in Sinks : retrieved.called /\ SinkNext(s)
    \/ retrieved.called /\ OriginDrop

StoreSpec == StoreInit /\ [][StoreNext]_vars

(***************************************************************************)
(* surt, one call: the Url is any of a set of parsed URLs.                 *)
(***************************************************************************)
\* hosts as Url::host gives them: the text, and whether it is a Host::Domain
SurtHosts ==
    { [host |-> <<"a", ".", "c">>, domain |-> TRUE],
      [host |-> <<"w", "w", "w", ".", "a", ".", "c">>, domain |-> TRUE],
      [host |-> <<"w", "w", "w", "2", "3", ".", "a", ".", "c">>, domain |-> TRUE],
      [host |-> <<"b", ".", "w", "w", "w", ".", "a">>, domain |-> TRUE],
      [host |-> <<"w", "w", "w", "a", ".", "c">>, domain |-> TRUE],
      [host |-> <<"w", "w", "w">>, domain |-> TRUE],
      [host |-> <<"w", "w", "w", "1">>, domain |-> TRUE],
      [host |-> <<"w", "w", "w", ".">>, domain |-> TRUE],
      [host |-> <<"1", ".", "2", ".", "3", ".", "4">>, domain |-> FALSE] }
SurtSchemes == {"http", "https"}
\* the port written in the URL, 0 for none
SurtPorts == {0, 80, 443, 123}
SurtPaths == { <<"/">>, <<"/", "w", "w", "w", "2", ".", "a">> }
\* a pair of the query as query_pairs yields it: "k" alone has the empty value
SurtPairs == [k : {<<"a">>, <<"A">>, <<"b">>}, v : {<<>>, <<"1">>, <<"X">>}]
SurtQueries == UNION {[1 .. n -> SurtPairs] : n \in 0 .. MaxPairs}

\* Url::parse of the written URL: the default port of the scheme is dropped
SurtUrls ==
    { [scheme |-> sc, host |-> h.host, domain |-> h.domain,
       port |-> IF p = DefaultPort(sc) THEN 0 ELSE p, path |-> pa, query |-> q] :
         sc \in SurtSchemes, h \in SurtHosts, p \in SurtPorts, pa \in SurtPaths,
         q \in SurtQueries }

SurtInit ==
    /\ CrawlIdle
    /\ HopIdle
    /\ StoreIdle
    /\ FilterIdle
    /\ LimitIdle
    /\ ActorIdle
    /\ WriterIdle
    /\ ExportIdle
    /\ \E u \in SurtUrls : surted = [url |-> u, out |-> <<>>, called |-> FALSE]

\* let key = surt(url)
Surt ==
    /\ ~surted.called
    /\ surted' = [surted EXCEPT !.out = surt(surted.url), !.called = TRUE]
    /\ UNCHANGED <<pipeVars, chanVars, hopVars, storeVars, filterVars, limitVars, actorVars, writerVars, exportVars>>

SurtNext == Surt

SurtSpec == SurtInit /\ [][SurtNext]_vars

(***************************************************************************)
(* ScriptFilter: which responses a Script is handed.                       *)
(***************************************************************************)
\* Regex::is_match for a pattern of literal characters: the pattern occurs
\* somewhere in the text (the search is not anchored)
is_match(pat, url) ==
    \E i \in 0 .. Len(url) :
        /\ i + Len(pat) <= Len(url)
        /\ \A j \in 1 .. Len(pat) : url[i + j] = pat[j]

\* HeaderValue::to_str: fails on a byte that is not visible ASCII ("~" here)
to_str(header) ==
    IF \E i \in 1 .. Len(header) : header[i] = "~"
    THEN [ok |-> FALSE, text |-> <<>>]
    ELSE [ok |-> TRUE, text |-> header]

\* MediaType::parse: type "/" subtype, both non-empty and without a slash
MediaParse(text) ==
    LET slashes == {i \in 1 .. Len(text) : text[i] = "/"}
    IN  IF Cardinality(slashes) = 1
           /\ \A i \in slashes : i > 1 /\ i < Len(text)
        THEN LET i == CHOOSE k \in slashes : TRUE
             IN  [ok |-> TRUE,
                  type |-> SubSeq(text, 1, i - 1),
                  subtype |-> SubSeq(text, i + 1, Len(text))]
        ELSE [ok |-> FALSE, type |-> <<>>, subtype |-> <<>>]

\* MediaRange::matches: "*" stands for any type or any subtype
range_matches(range, media) ==
    /\ range.type = <<"*">> \/ range.type = media.type
    /\ range.subtype = <<"*">> \/ range.subtype = media.subtype

\* ScriptFilter::matches_url: url_pattern is <<>> when absent, <<pat>> when set
matches_url(filter, url) ==
    IF filter.url_pattern = <<>> THEN TRUE
    ELSE is_match(filter.url_pattern[1], url)

\* ScriptFilter::matches_types: headers.get(CONTENT_TYPE) is <<>> when the
\* header is absent; every None on the way falls to unwrap_or(true)
matches_types(filter, data) ==
    IF data.content_type = <<>> THEN TRUE
    ELSE LET text == to_str(data.content_type[1])
         IN  IF ~text.ok THEN TRUE
             ELSE LET header == MediaParse(text.text)
                  IN  IF ~header.ok THEN TRUE
                      ELSE \E i \in 1 .. Len(filter.mime_types) :
                               range_matches(filter.mime_types[i], header)

\* ScriptFilter::matches
filter_matches(filter, data) ==
    matches_url(filter, data.url) /\ matches_types(filter, data)

FilterChars == {"a", "b", "/", "~"}
FilterTexts == UNION {[1 .. n -> FilterChars] : n \in 1 .. 3}
FilterUrls == {<<"a">>, <<"b">>, <<"a", "b">>, <<"b", "a">>}
FilterPatterns == {<<"a">>, <<"b", "a">>}
MediaRanges ==
    {[type |-> <<t>>, subtype |-> <<st>>] :
        t \in {"a", "*"}, st \in {"a", "b", "*"}}
RangeLists == UNION {[1 .. n -> MediaRanges] : n \in 0 .. 1}
ScriptFilters ==
    [url_pattern : {<<>>} \cup {<<pat>> : pat \in FilterPatterns},
     mime_types : RangeLists]
FilterResponses ==
    [url : FilterUrls,
     content_type : {<<>>} \cup {<<h>> : h \in FilterTexts}]

FilterInit ==
    /\ CrawlIdle
    /\ HopIdle
    /\ StoreIdle
    /\ SurtIdle
    /\ LimitIdle
    /\ ActorIdle
    /\ WriterIdle
    /\ ExportIdle
    /\ \E filter \in ScriptFilters, data \in FilterResponses :
           matched = [filter |-> filter, data |-> data,
                      out |-> FALSE, called |-> FALSE]

\* one call of filter.matches(response)
FilterMatches ==
    /\ ~matched.called
    /\ matched' = [matched EXCEPT !.out = filter_matches(matched.filter, matched.data),
                                  !.called = TRUE]
    /\ UNCHANGED <<pipeVars, chanVars, hopVars, storeVars, surtVars, limitVars, actorVars, writerVars, exportVars>>

FilterNext == FilterMatches

FilterSpec == FilterInit /\ [][FilterNext]_vars

(***************************************************************************)
(* ClientWriter: what one ScriptInstance writes to the stdin of its        *)
(* subprocess.  Every write call appends one item: a byte, a 64-bit        *)
(* length, or a run of bytes (of which the length is kept).                *)
(***************************************************************************)
\* enum ServerRequest
Submit == 0
AnswerFetch == 1
CloseScript == 2

write_u8(writer, b) == Append(writer, <<"u8", b>>)
write_u64_le(writer, n) == Append(writer, <<"u64", n>>)
\* write_all of an empty slice writes nothing
write_all(writer, bytes) ==
    IF Len(bytes) = 0 THEN writer ELSE Append(writer, <<"bytes", Len(bytes)>>)

\* serde_json::to_vec(res.meta): never empty
meta_json(res) == <<"{", "}">>

RECURSIVE write_chunks(_, _)
\* while let Some(chunk) = body.try_next().await? { length, bytes, flush }
write_chunks(writer, chunks) ==
    IF chunks = <<>> THEN writer
    ELSE write_chunks(write_all(write_u64_le(writer, Len(Head(chunks))), Head(chunks)),
                      Tail(chunks))

\* ClientWriter::write_res: the metadata, the chunks as they arrive and the
\* zero length; an Err item of the body leaves through `?` before the zero
\* length is written
write_res(writer, res) ==
    LET w1 == write_all(write_u64_le(writer, Len(meta_json(res))), meta_json(res))
        w2 == write_chunks(w1, res.chunks)
    IN  IF res.end = "eof"
        THEN [writer |-> write_u64_le(w2, 0), ok |-> TRUE]
        ELSE [writer |-> w2, ok |-> FALSE]

RECURSIVE ReadChunks(_, _)
\* The stream as the subprocess reads it, from item i on, inside the body of
\* a response: lengths and chunks up to the zero length.  The answer is the
\* item after the frame, 0 if the stream ends within the frame, or -1 if
\* something else than a length stands where a length is read.
ReadChunks(writer, i) ==
    IF i > Len(writer) THEN 0
    ELSE IF writer[i][1] # "u64" THEN -1
    ELSE IF writer[i][2] = 0 THEN i + 1
    ELSE IF i + 1 > Len(writer) THEN 0
    ELSE IF writer[i + 1] # <<"bytes", writer[i][2]>> THEN -1
    ELSE ReadChunks(writer, i + 2)

\* the text of an error read from item i on: a length and as many bytes
ReadError(writer, i) ==
    IF i > Len(writer) THEN 0
    ELSE IF writer[i][1] # "u64" THEN -1
    ELSE IF writer[i][2] = 0 THEN i + 1
    ELSE IF i + 1 > Len(writer) THEN 0
    ELSE IF writer[i + 1] # <<"bytes", writer[i][2]>> THEN -1
    ELSE i + 2

\* a frame read from item i on: the item after it, 0 or -1 as above
ReadFrame(writer, i) ==
    LET op == writer[i]
    IN  IF op = <<"u8", CloseScript>> THEN i + 1
        ELSE IF op = <<"u8", Submit>> THEN ReadChunks(writer, i + 1)
        ELSE IF op = <<"u8", AnswerFetch>>
        THEN IF i + 1 > Len(writer) THEN 0
             ELSE IF writer[i + 1] = <<"u8", 0>> THEN ReadChunks(writer, i + 2)
             ELSE IF writer[i + 1] = <<"u8", 1>> THEN ReadError(writer, i + 2)
             ELSE -1
        ELSE -1

RECURSIVE ReadFrames(_, _)
\* the frames of a stream: "complete", "open" (it ends within a frame) or
\* "torn" (a frame is not what the protocol says)
ReadFrames(writer, i) ==
    IF i > Len(writer) THEN "complete"
    ELSE LET next == ReadFrame(writer, i)
         IN  IF next = 0 THEN "open"
             ELSE IF next = -1 THEN "torn"
             ELSE ReadFrames(writer, next)

\* the write calls that begin a frame
FramesBegun(writer) ==
    Cardinality({i \in 1 .. Len(writer) :
                    writer[i][1] = "u8" /\ (i = 1 \/ writer[i - 1][1] # "u8")})
\* frames written to one subprocess
MaxFrames == 3
\* the bodies of the responses written: chunks of bytes, and how the body ends
WriterChunks == {<<>>, <<<<"x">>>>, <<<<"x", "y">>, <<"z">>>>}
WriterResponses == [chunks : WriterChunks, end : Ends]

WriterInit ==
    /\ CrawlIdle
    /\ HopIdle
    /\ StoreIdle
    /\ SurtIdle
    /\ FilterIdle
    /\ LimitIdle
    /\ ActorIdle
    /\ ExportIdle
    /\ proc_in = <<>>
    /\ submitting = "idle"

\* answer(): ScriptInstance::submit up to the loop; an Err is the reply and
\* the actor loop takes the next message
WriterSubmit(res) ==
    /\ submitting = "idle"
    /\ FramesBegun(proc_in) < MaxFrames
    /\ LET r == write_res(write_u8(proc_in, Submit), res)
       IN /\ proc_in' = r.writer
          /\ submitting' = IF r.ok THEN "frames" ELSE "idle"
    /\ UNCHANGED <<pipeVars, chanVars, hopVars, storeVars, surtVars, filterVars, limitVars,
                   actorVars, exportVars>>

\* Fetch { url } answered Ok(res): ClientWriter::answer_fetch
WriterAnswerFetch(res) ==
    /\ submitting = "frames"
    /\ FramesBegun(proc_in) < MaxFrames
    /\ LET r == write_res(write_u8(write_u8(proc_in, AnswerFetch), 0), res)
       IN /\ proc_in' = r.writer
          /\ submitting' = IF r.ok THEN "frames" ELSE "idle"
    /\ UNCHANGED <<pipeVars, chanVars, hopVars, storeVars, surtVars, filterVars, limitVars,
                   actorVars, exportVars>>

\* Fetch { url } with an invalid URL or a failed request: ClientWriter::error_fetch
WriterErrorFetch(err) ==
    /\ submitting = "frames"
    /\ FramesBegun(proc_in) < MaxFrames
    /\ proc_in' = write_all(write_u64_le(write_u8(write_u8(proc_in, AnswerFetch), 1),
                                         Len(err)), err)
    /\ UNCHANGED <<submitting, pipeVars, chanVars, hopVars, storeVars, surtVars, filterVars,
                   limitVars, actorVars, exportVars>>

\* EndFile: submit returns Ok(())
WriterEndFile ==
    /\ submitting = "frames"
    /\ submitting' = "idle"
    /\ UNCHANGED <<proc_in, pipeVars, chanVars, hopVars, storeVars, surtVars, filterVars,
                   limitVars, actorVars, exportVars>>

\* close(): ScriptInstance::close_script
WriterClose ==
    /\ submitting = "idle"
    /\ proc_in' = write_u8(proc_in, CloseScript)
    /\ submitting' = "closed"
    /\ UNCHANGED <<pipeVars, chanVars, hopVars, storeVars, surtVars, filterVars, limitVars,
                   actorVars, exportVars>>

WriterNext ==
    \/ \E res \in WriterResponses : WriterSubmit(res)
    \/ \E res \in WriterResponses : WriterAnswerFetch(res)
    \/ \E err \in {<<"e">>} : WriterErrorFetch(err)
    \/ WriterEndFile
    \/ WriterClose

WriterSpec == WriterInit /\ [][WriterNext]_vars

(***************************************************************************)
(* The pool: the ScriptManager actor and, for each Script, `workers`       *)
(* ScriptInstance actors on one mailbox, all running Actor::run_async_loop *)
(* under their ActorManager.  Responses arrive from fetch tasks; the owner *)
(* of the scraper manager may call close_and_join at any time.  Every      *)
(* Script takes every response (no filter).                                *)
(***************************************************************************)
\* the ScriptManager as the sender of a reply
TheManager == <<0, 0>>

\* a loop in which the shutdown may win at any point, also inside answer()
AtAnyPoint(st) == st \notin {"closing", "exited"}

\* the select! of the loop is reached between two messages only: answer()
\* is awaited inside the arm that took the message
AtSelect(st) == st = "select"

\* a receive that leaves the message in the mailbox
recv_keep(q) == q

\* rx.recv_async() on the flume channel the workers share: the message is
\* taken by the one that receives it
recv_async(q) == Tail(q)

\* output.send(result)
send(by, to, since, result, at) ==
    [by |-> by, to |-> to, since |-> since, result |-> result, at |-> at]

PoolInit ==
    /\ CrawlIdle
    /\ HopIdle
    /\ StoreIdle
    /\ SurtIdle
    /\ FilterIdle
    /\ LimitIdle
    /\ WriterIdle
    /\ ExportIdle
    /\ mail = [manager |-> <<>>, script |-> [s \in Scripts |-> <<>>]]
    /\ sm = [st |-> "select", cur |-> 0, since |-> "Running", pending |-> {}, took |-> {},
             closes |-> 0]
    /\ pool = [i \in Pool |-> [st |-> "select", cur |-> 0, since |-> "Running",
                               took |-> {}, closes |-> 0]]
    /\ signal = [scripts |-> "Running", inst |-> [s \in Scripts |-> "Running"]]
    /\ owner = [st |-> "running", sent |-> 0]
    /\ answered = {}

\* HttpClient::get: scrapers.request(res.clone())
PoolSend ==
    /\ owner.sent < MaxResponses
    /\ mail' = [mail EXCEPT !.manager = Append(@, owner.sent + 1)]
    /\ owner' = [owner EXCEPT !.sent = @ + 1]
    /\ UNCHANGED <<sm, pool, signal, answered>>
    /\ UNCHANGED <<pipeVars, chanVars, hopVars, storeVars, surtVars, filterVars, limitVars,
                   writerVars, exportVars>>

\* the ScriptManager's loop takes a response: process() sends it to the
\* mailbox of every Script and awaits the replies
PoolManagerRecv ==
    /\ AtSelect(sm.st)
    /\ mail.manager # <<>>
    /\ LET r == Head(mail.manager)
       IN /\ mail' = [manager |-> recv_async(mail.manager),
                      script |-> [s \in Scripts |-> Append(mail.script[s], r)]]
          /\ sm' = [sm EXCEPT !.st = "busy", !.cur = r, !.since = signal.scripts,
                              !.pending = Scripts, !.took = @ \cup {r}]
    /\ UNCHANGED <<pool, signal, owner, answered>>
    /\ UNCHANGED <<pipeVars, chanVars, hopVars, storeVars, surtVars, filterVars, limitVars,
                   writerVars, exportVars>>

\* an instance's loop takes a response: submit() writes the Submit frame and
\* reads frames, or fails on the write and the loop replies Err
PoolInstRecv(i, io) ==
    /\ AtSelect(pool[i].st)
    /\ mail.script[i[1]] # <<>>
    /\ LET r == Head(mail.script[i[1]])
       IN /\ mail' = [mail EXCEPT !.script[i[1]] = recv_async(@)]
          /\ IF io
             THEN /\ pool' = [pool EXCEPT ![i].took = @ \cup {r}]
                  /\ answered' = answered \cup
                        {send(i, r, signal.inst[i[1]], "Err", signal.inst[i[1]])}
             ELSE /\ pool' = [pool EXCEPT ![i].st = "frames", ![i].cur = r,
                                          ![i].since = signal.inst[i[1]],
                                          ![i].took = @ \cup {r}]
                  /\ UNCHANGED answered
    /\ UNCHANGED <<sm, signal, owner>>
    /\ UNCHANGED <<pipeVars, chanVars, hopVars, storeVars, surtVars, filterVars, limitVars,
                   writerVars, exportVars>>

\* EndFile: submit() returns and the loop sends the reply
PoolInstEndFile(i) ==
    /\ pool[i].st = "frames"
    /\ answered' = answered \cup
          {send(i, pool[i].cur, pool[i].since, "Ok", signal.inst[i[1]])}
    /\ pool' = [pool EXCEPT ![i].st = "select", ![i].cur = 0]
    /\ UNCHANGED <<mail, sm, signal, owner>>
    /\ UNCHANGED <<pipeVars, chanVars, hopVars, storeVars, surtVars, filterVars, limitVars,
                   writerVars, exportVars>>

\* process(): stream.next() yields the reply of Script s; an Err returns at
\* once (v?) and drops the other request futures, the last Ok returns Ok(())
PoolManagerPoll(s) ==
    /\ sm.st = "busy"
    /\ s \in sm.pending
    /\ \E reply \in answered :
          /\ reply.by \in Pool /\ reply.by[1] = s /\ reply.to = sm.cur
          /\ IF reply.result = "Err" \/ sm.pending = {s}
             THEN /\ answered' = answered \cup
                        {send(TheManager, sm.cur, sm.since, reply.result, signal.scripts)}
                  /\ sm' = [sm EXCEPT !.st = "select", !.cur = 0, !.pending = {}]
             ELSE /\ sm' = [sm EXCEPT !.pending = @ \ {s}]
                  /\ UNCHANGED answered
    /\ UNCHANGED <<mail, pool, signal, owner>>
    /\ UNCHANGED <<pipeVars, chanVars, hopVars, storeVars, surtVars, filterVars, limitVars,
                   writerVars, exportVars>>

\* ActorManager::close_and_join of the scraper manager: state.send(Closing)
PoolCloseAndJoin ==
    /\ owner.st = "running"
    /\ signal' = [signal EXCEPT !.scripts = "Closing"]
    /\ owner' = [owner EXCEPT !.st = "joining"]
    /\ UNCHANGED <<mail, sm, pool, answered>>
    /\ UNCHANGED <<pipeVars, chanVars, hopVars, storeVars, surtVars, filterVars, limitVars,
                   writerVars, exportVars>>

\* program_state.changed() wins the ScriptManager's select: break, close() is
\* close_all, which starts close_and_join of every Script
PoolManagerClose ==
    /\ AtSelect(sm.st)
    /\ signal.scripts = "Closing"
    /\ sm' = [sm EXCEPT !.st = "closing", !.closes = @ + 1]
    /\ signal' = [signal EXCEPT !.inst = [s \in Scripts |-> "Closing"]]
    /\ UNCHANGED <<mail, pool, owner, answered>>
    /\ UNCHANGED <<pipeVars, chanVars, hopVars, storeVars, surtVars, filterVars, limitVars,
                   writerVars, exportVars>>

\* program_state.changed() wins an instance's select: break, close() is
\* close_script, the task ends
PoolInstClose(i) ==
    /\ AtSelect(pool[i].st)
    /\ signal.inst[i[1]] = "Closing"
    /\ pool' = [pool EXCEPT ![i].st = "exited", ![i].closes = @ + 1]
    /\ UNCHANGED <<mail, sm, signal, owner, answered>>
    /\ UNCHANGED <<pipeVars, chanVars, hopVars, storeVars, surtVars, filterVars, limitVars,
                   writerVars, exportVars>>

\* close_all: join_next of every Script has returned None; the
\* ScriptManager's task ends
PoolManagerJoined ==
    /\ sm.st = "closing"
    /\ \A i \in Pool : pool[i].st = "exited"
    /\ sm' = [sm EXCEPT !.st = "exited"]
    /\ UNCHANGED <<mail, pool, signal, owner, answered>>
    /\ UNCHANGED <<pipeVars, chanVars, hopVars, storeVars, surtVars, filterVars, limitVars,
                   writerVars, exportVars>>

\* close_and_join of the scraper manager: join_next returns None
PoolJoined ==
    /\ owner.st = "joining"
    /\ sm.st = "exited"
    /\ owner' = [owner EXCEPT !.st = "returned"]
    /\ UNCHANGED <<mail, sm, pool, signal, answered>>
    /\ UNCHANGED <<pipeVars, chanVars, hopVars, storeVars, surtVars, filterVars, limitVars,
                   writerVars, exportVars>>

PoolNext ==
    \/ PoolSend
    \/ PoolManagerRecv
    \/ \E i \in Pool, io \in BOOLEAN : PoolInstRecv(i, io)
    \/ \E i \in Pool : PoolInstEndFile(i)
    \/ \E s \in Scripts : PoolManagerPoll(s)
    \/ PoolCloseAndJoin
    \/ PoolManagerClose
    \/ \E i \in Pool : PoolInstClose(i)
    \/ PoolManagerJoined
    \/ PoolJoined

PoolSpec == PoolInit /\ [][PoolNext]_vars

(***************************************************************************)
(* The export: main of evergarden_export and its writers.                  *)
(***************************************************************************)
\* const CDX_SPLIT_THRESHOLD: usize = 1000, scaled
CDX_SPLIT_THRESHOLD == 2
\* ByteUnit::Gigabyte(1): the rotation threshold of the WARC files, scaled
threshold == 2

\* the keys of the records of an archive
ExportKeys == {key(1), key(2), key(4)}
\* OffsetDateTime: the day and the time of day
Times == [day : {1, 2}, hms : {1, 2}]
\* the ResponseMetadata of a record; len is the length of its WARC record
ExportMetas == [fetched_at : Times, len : {1, 2}]

\* Storage::read_info_sync: the entry points of the CrawlInfo of the archive
read_info_sync(c) == c.entry_points

RECURSIVE sort(_)
\* entry_points.sort(): the keys in byte order
sort(v) ==
    IF v = <<>> THEN <<>>
    ELSE LET sorted == sort(SubSeq(v, 1, Len(v) - 1))
             x == v[Len(v)]
             n == Cardinality({j \in DOMAIN sorted : ~cmp(x, sorted[j])})
         IN SubSeq(sorted, 1, n) \o <<x>> \o SubSeq(sorted, n + 1, Len(sorted))

\* entry_points.binary_search(&key).is_ok(): the search halves the range
\* left .. right - 1 (positions from 0) until it is empty or holds the key
binary_search(v, x) ==
    LET RECURSIVE Search(_, _)
        Search(left, right) ==
            IF left >= right THEN FALSE
            ELSE LET mid == left + ((right - left) \div 2)
                 IN IF cmp(v[mid + 1], x) THEN Search(mid + 1, right)
                    ELSE IF cmp(x, v[mid + 1]) THEN Search(left, mid)
                    ELSE TRUE
    IN Search(0, Len(v))

\* OffsetDateTime::to_hms: the time of day, without the date
to_hms(t) == t.hms
\* TIME_FMT, [year][month][day][hour][minute][second]: date, then time of day
TIME_FMT(t) == (t.day * 100) + t.hms

\* Storage::list: the index has one entry for a key
Listings ==
    { l \in SUBSET [key : ExportKeys, meta : ExportMetas] :
        \A x, y \in l : x.key = y.key => x = y }

\* the orders in which the entries of a listing can be yielded
Orders(l) ==
    { q \in [1 .. Cardinality(l) -> l] : \A i, j \in DOMAIN q : q[i] = q[j] => i = j }

\* a comparison that leaves every record where it is
NeverLess(x, y) == FALSE

\* (lkey, lmeta.fetched_at.to_hms()).cmp(&(rkey, rmeta.fetched_at.to_hms())) is Less
RecordLess(x, y) ==
    \/ cmp(x.key, y.key)
    \/ x.key = y.key /\ to_hms(x.meta.fetched_at) < to_hms(y.meta.fetched_at)

RECURSIVE sort_records(_)
\* records.sort_unstable_by(..)
sort_records(records) ==
    IF records = <<>> THEN <<>>
    ELSE LET sorted == sort_records(SubSeq(records, 1, Len(records) - 1))
             x == records[Len(records)]
             n == Cardinality({j \in DOMAIN sorted : ~RecordLess(x, sorted[j])})
         IN SubSeq(sorted, 1, n) \o <<x>> \o SubSeq(sorted, n + 1, Len(sorted))

\* group_by(|(lkey, _, lmeta)| (lkey.clone(), lmeta.fetched_at.to_hms()))
GroupKey(r) == <<r.key, to_hms(r.meta.fetched_at)>>

RECURSIVE Size(_)
\* the length of a file: the lengths of what was written to it
Size(file) == IF file = <<>> THEN 0 ELSE Head(file).len + Size(Tail(file))

\* file_digest: the SHA-256 of the contents of a file
file_digest(file) == [sha256 |-> file]

\* format!("{:05}.warc.gz", index)
WarcName(index) ==
    <<"00000.warc.gz", "00001.warc.gz", "00002.warc.gz", "00003.warc.gz", "00004.warc.gz">>[index + 1]

\* a join that drops the directory
NameOnly(dir, name) == <<"", name>>

\* Path::join
PathJoin(dir, name) == <<dir, name>>

\* usize::saturating_sub
saturating_sub(a, b) == IF a >= b THEN a - b ELSE 0

\* a rotation that forgets the file it closes
rotateWithoutDigest(self) ==
    [self EXCEPT !.counter = @ + 1, !.cur = self.counter + 1, !.files = Append(@, <<>>)]

\* RotatingWarcRecorder::rotate
rotate(self) ==
    [self EXCEPT !.counter = @ + 1,
                 !.cur = self.counter + 1,
                 !.files = Append(@, <<>>),
                 !.digests = Append(@, [idx |-> saturating_sub(self.counter + 1, 1),
                                        digest |-> file_digest(self.files[self.cur + 1]),
                                        len |-> Size(self.files[self.cur + 1])])]

\* BufWriter<File>::write_warc: the CDXRecord of the record written
RecordOf(self, surt_key, meta) ==
    [key |-> surt_key, time |-> meta.fetched_at,
     block |-> [filename |-> WarcName(self.counter),
                offset |-> Size(self.files[self.cur + 1]),
                length |-> meta.len]]

\* a recorder that rotates as soon as the threshold is reached
write_warc_rotating_early(self, surt_key, meta) ==
    LET cdx == RecordOf(self, surt_key, meta)
        written == [self EXCEPT !.files[self.cur + 1] = Append(@, [key |-> surt_key, len |-> meta.len])]
    IN IF cdx.block.offset + cdx.block.length >= threshold THEN rotate(written) ELSE written

\* RotatingWarcRecorder::write_warc: the recorder after the call
write_warc(self, surt_key, meta) ==
    LET cdx == RecordOf(self, surt_key, meta)
        written == [self EXCEPT !.files[self.cur + 1] = Append(@, [key |-> surt_key, len |-> meta.len])]
    IN IF cdx.block.offset + cdx.block.length > threshold THEN rotate(written) ELSE written

\* RotatingWarcRecorder::finalize: one DataPackageEntry for every digest
WarcFinalize(self) ==
    LET digests == Append(self.digests, [idx |-> self.counter,
                                         digest |-> file_digest(self.files[self.cur + 1]),
                                         len |-> Size(self.files[self.cur + 1])])
    IN [i \in DOMAIN digests |->
          [name |-> WarcName(digests[i].idx),
           path |-> PathJoin("archive/", WarcName(digests[i].idx)),
           hash |-> digests[i].digest,
           bytes |-> digests[i].len]]

\* CDXStyleRecord::to_line
to_line(r) == [key |-> r.key, time |-> TIME_FMT(r.time), block |-> r.block, len |-> 1]

\* the block of a flush, and a flush that takes the number of blocks for
\* the position in the file
flush_lines_counting_blocks(self) ==
    IF self.buffer = <<>> THEN self
    ELSE LET n == IF Len(self.buffer) < CDX_SPLIT_THRESHOLD THEN Len(self.buffer)
                  ELSE CDX_SPLIT_THRESHOLD
             lines == [i \in 1 .. n |-> to_line(self.buffer[i])]
         IN [buffer |-> SubSeq(self.buffer, n + 1, Len(self.buffer)),
             out |-> Append(self.out, [lines |-> lines, len |-> 1 + n]),
             aux |-> Append(self.aux,
                        [key |-> self.buffer[1].key, time |-> TIME_FMT(self.buffer[1].time),
                         block |-> [offset |-> Len(self.out), length |-> 1 + n,
                                    digest |-> file_digest(lines),
                                    filename |-> "index.cdx.gz"],
                         len |-> 1])]

\* CDXWriter::flush_lines: one gzip block of up to CDX_SPLIT_THRESHOLD lines;
\* the block is one byte longer than its lines are many
flush_lines(self) ==
    IF self.buffer = <<>> THEN self
    ELSE LET n == IF Len(self.buffer) < CDX_SPLIT_THRESHOLD THEN Len(self.buffer)
                  ELSE CDX_SPLIT_THRESHOLD
             lines == [i \in 1 .. n |-> to_line(self.buffer[i])]
             gzip_slice == [lines |-> lines, len |-> 1 + n]
             index_line == [key |-> self.buffer[1].key, time |-> TIME_FMT(self.buffer[1].time),
                            block |-> [offset |-> Size(self.out), length |-> gzip_slice.len,
                                       digest |-> file_digest(lines),
                                       filename |-> "index.cdx.gz"],
                            len |-> 1]
         IN [buffer |-> SubSeq(self.buffer, n + 1, Len(self.buffer)),
             out |-> Append(self.out, gzip_slice),
             aux |-> Append(self.aux, index_line)]

RECURSIVE flush_all(_)
\* while !self.buffer.is_empty() { self.flush_lines()?; }
flush_all(self) == IF self.buffer = <<>> THEN self ELSE flush_all(flush_lines(self))

\* a writer that only buffers
write_batch_buffering(self, batch) == [self EXCEPT !.buffer = @ \o batch]

\* CDXWriter::write_batch
write_batch(self, batch) ==
    LET extended == [self EXCEPT !.buffer = @ \o batch]
    IN IF Len(extended.buffer) >= CDX_SPLIT_THRESHOLD THEN flush_all(extended) ELSE extended

\* every page is taken for an entry point
add_entry_main(self, r, is_main) == [self EXCEPT !.main = Append(@, [url |-> r.key, len |-> 1])]

\* PagesWriter::add_entry
add_entry(self, r, is_main) ==
    IF is_main THEN [self EXCEPT !.main = Append(@, [url |-> r.key, len |-> 1])]
    ELSE [self EXCEPT !.extra = Append(@, [url |-> r.key, len |-> 1])]

\* a DataPackageEntry of a file in a directory of the package
Entry(dir, name, file) ==
    [name |-> name, path |-> PathJoin(dir, name), hash |-> file_digest(file), bytes |-> Size(file)]

ExportInit ==
    /\ CrawlIdle
    /\ HopIdle
    /\ StoreIdle
    /\ SurtIdle
    /\ FilterIdle
    /\ LimitIdle
    /\ ActorIdle
    /\ WriterIdle
    /\ \E l \in Listings, e \in {<<>>, <<key(1)>>, <<key(2), key(4)>>} :
          cache = [records |-> l, entry_points |-> e]
    /\ ex = [NoExport EXCEPT !.pc = "open"]
    /\ warc_writer = NoWarcWriter
    /\ cdx_writer = NoCdxWriter
    /\ pages_writer = NoPagesWriter
    /\ package = NoPackage

\* main, lines 92-119: the storage, the temporary directory and the writers
ExportOpen ==
    /\ ex.pc = "open"
    /\ warc_writer' = [NoWarcWriter EXCEPT !.files = << <<>> >>]
    /\ pages_writer' = [main |-> <<[url |-> "entrypoint-pages", len |-> 1]>>,
                        extra |-> <<[url |-> "extra-pages", len |-> 1]>>]
    /\ ex' = [ex EXCEPT !.pc = "list"]
    /\ UNCHANGED <<cache, cdx_writer, package, pipeVars, chanVars, hopVars, storeVars, surtVars, filterVars, limitVars, actorVars, writerVars>>

\* main, lines 123-134: the records of the archive, in any order, then sorted
ExportList ==
    /\ ex.pc = "list"
    /\ \E q \in Orders(cache.records) :
          ex' = [ex EXCEPT !.pc = "info", !.records = sort_records(q)]
    /\ UNCHANGED <<cache, warc_writer, cdx_writer, pages_writer, package,
                   pipeVars, chanVars, hopVars, storeVars, surtVars, filterVars, limitVars, actorVars, writerVars>>

\* main, lines 136-139: the entry points of the crawl
ExportReadInfo ==
    /\ ex.pc = "info"
    /\ ex' = [ex EXCEPT !.pc = "write", !.entry_points = sort(read_info_sync(cache))]
    /\ UNCHANGED <<cache, warc_writer, cdx_writer, pages_writer, package,
                   pipeVars, chanVars, hopVars, storeVars, surtVars, filterVars, limitVars, actorVars, writerVars>>

\* main, lines 142-159, one record: its page entry and its WARC record; the
\* batch goes to the CDX writer when the group of the record ends
ExportRecord ==
    /\ ex.pc = "write"
    /\ ex.i <= Len(ex.records)
    /\ LET r == ex.records[ex.i]
           batch == Append(ex.batch, RecordOf(warc_writer, r.key, r.meta))
           last == \/ ex.i = Len(ex.records)
                   \/ GroupKey(ex.records[ex.i + 1]) # GroupKey(r)
       IN /\ pages_writer' = add_entry(pages_writer, r, binary_search(ex.entry_points, r.key))
          /\ warc_writer' = write_warc(warc_writer, r.key, r.meta)
          /\ cdx_writer' = IF last THEN write_batch(cdx_writer, batch) ELSE cdx_writer
          /\ ex' = [ex EXCEPT !.i = @ + 1, !.batch = IF last THEN <<>> ELSE batch]
    /\ UNCHANGED <<cache, package, pipeVars, chanVars, hopVars, storeVars, surtVars, filterVars, limitVars, actorVars, writerVars>>

\* main, lines 165-186: the writers are finalized, the resources are listed
ExportFinalize ==
    /\ ex.pc = "write"
    /\ ex.i > Len(ex.records)
    /\ cdx_writer' = flush_all(cdx_writer)
    /\ LET warc_entries == WarcFinalize(warc_writer)
       IN ex' = [ex EXCEPT !.pc = "create",
                           !.warc_entries = warc_entries,
                           !.resources = warc_entries \o
                               << Entry("indexes/", "index.cdx.gz", cdx_writer'.out),
                                  Entry("indexes/", "index.idx", cdx_writer'.aux),
                                  Entry("pages/", "pages.jsonl", pages_writer.main),
                                  Entry("pages/", "extraPages.jsonl", pages_writer.extra) >>]
    /\ UNCHANGED <<cache, warc_writer, pages_writer, package,
                   pipeVars, chanVars, hopVars, storeVars, surtVars, filterVars, limitVars, actorVars, writerVars>>

\* a member of the ZIP
Member(path, dir, content) == [path |-> path, dir |-> dir, content |-> content]

\* main, line 190: File::create(args.output)
ExportCreate ==
    /\ ex.pc = "create"
    /\ package' = [created |-> TRUE, members |-> <<>>, finished |-> FALSE]
    /\ ex' = [ex EXCEPT !.pc = "directories"]
    /\ UNCHANGED <<cache, warc_writer, cdx_writer, pages_writer,
                   pipeVars, chanVars, hopVars, storeVars, surtVars, filterVars, limitVars, actorVars, writerVars>>

\* main, lines 192-203: the three directories
ExportAddDirectories ==
    /\ ex.pc = "directories"
    /\ package' = [package EXCEPT !.members = @ \o
                       << Member(<<"archive", "">>, TRUE, <<>>),
                          Member(<<"indexes", "">>, TRUE, <<>>),
                          Member(<<"pages", "">>, TRUE, <<>>) >>]
    /\ ex' = [ex EXCEPT !.pc = "datapackage"]
    /\ UNCHANGED <<cache, warc_writer, cdx_writer, pages_writer,
                   pipeVars, chanVars, hopVars, storeVars, surtVars, filterVars, limitVars, actorVars, writerVars>>

\* main, lines 205-209: datapackage.json
ExportAddDatapackage ==
    /\ ex.pc = "datapackage"
    /\ package' = [package EXCEPT !.members =
                       Append(@, Member(<<"", "datapackage.json">>, FALSE, ex.resources))]
    /\ ex' = [ex EXCEPT !.pc = "indexes"]
    /\ UNCHANGED <<cache, warc_writer, cdx_writer, pages_writer,
                   pipeVars, chanVars, hopVars, storeVars, surtVars, filterVars, limitVars, actorVars, writerVars>>

\* main, lines 213-217: the indexes and the pages
ExportAddIndexes ==
    /\ ex.pc = "indexes"
    /\ package' = [package EXCEPT !.members = @ \o
                       << Member(<<"indexes/", "index.cdx.gz">>, FALSE, cdx_writer.out),
                          Member(<<"indexes/", "index.idx">>, FALSE, cdx_writer.aux),
                          Member(<<"pages/", "pages.jsonl">>, FALSE, pages_writer.main),
                          Member(<<"pages/", "extraPages.jsonl">>, FALSE, pages_writer.extra) >>]
    /\ ex' = [ex EXCEPT !.pc = "warcs"]
    /\ UNCHANGED <<cache, warc_writer, cdx_writer, pages_writer,
                   pipeVars, chanVars, hopVars, storeVars, surtVars, filterVars, limitVars, actorVars, writerVars>>

\* main, lines 221-225: one WARC file is copied
ExportAddWarc ==
    /\ ex.pc = "warcs"
    /\ ex.copied < Len(ex.warc_entries)
    /\ LET path == ex.warc_entries[ex.copied + 1].path
           file == CHOOSE i \in DOMAIN warc_writer.files :
                      PathJoin("archive/", WarcName(i - 1)) = path
       IN package' = [package EXCEPT !.members =
                         Append(@, Member(path, FALSE, warc_writer.files[file]))]
    /\ ex' = [ex EXCEPT !.copied = @ + 1]
    /\ UNCHANGED <<cache, warc_writer, cdx_writer, pages_writer,
                   pipeVars, chanVars, hopVars, storeVars, surtVars, filterVars, limitVars, actorVars, writerVars>>

\* main, line 229: package.finish()
ExportFinish ==
    /\ ex.pc = "warcs"
    /\ ex.copied = Len(ex.warc_entries)
    /\ package' = [package EXCEPT !.finished = TRUE]
    /\ ex' = [ex EXCEPT !.pc = "done"]
    /\ UNCHANGED <<cache, warc_writer, cdx_writer, pages_writer,
                   pipeVars, chanVars, hopVars, storeVars, surtVars, filterVars, limitVars, actorVars, writerVars>>

\* a step of main fails, `?` returns the error: nothing more is done
ExportFail ==
    /\ ex.pc \notin {"none", "done", "failed"}
    /\ ex' = [ex EXCEPT !.pc = "failed"]
    /\ UNCHANGED <<cache, warc_writer, cdx_writer, pages_writer, package,
                   pipeVars, chanVars, hopVars, storeVars, surtVars, filterVars, limitVars, actorVars, writerVars>>

ExportNext ==
    \/ ExportOpen
    \/ ExportList
    \/ ExportReadInfo
    \/ ExportRecord
    \/ ExportFinalize
    \/ ExportCreate
    \/ ExportAddDirectories
    \/ ExportAddDatapackage
    \/ ExportAddIndexes
    \/ ExportAddWarc
    \/ ExportFinish
    \/ ExportFail

ExportSpec == ExportInit /\ [][ExportNext]_vars

(***************************************************************************)
(* The CDX writer alone: any batches, then finalize.                       *)
(***************************************************************************)
\* the CDXRecords of a batch; the offset of a record is set to its number
CdxRecords ==
    [key : {key(1), key(2)},
     time : {[day |-> 1, hms |-> 2], [day |-> 2, hms |-> 1]},
     block : {[filename |-> "00000.warc.gz", offset |-> 0, length |-> 1]}]

CdxInit ==
    /\ CrawlIdle
    /\ HopIdle
    /\ StoreIdle
    /\ SurtIdle
    /\ FilterIdle
    /\ LimitIdle
    /\ ActorIdle
    /\ WriterIdle
    /\ cache = [records |-> {}, entry_points |-> <<>>]
    /\ ex = [NoExport EXCEPT !.pc = "cdx"]
    /\ warc_writer = NoWarcWriter
    /\ cdx_writer = NoCdxWriter
    /\ pages_writer = NoPagesWriter
    /\ package = NoPackage

\* cdx_writer.write_batch(records): ex.records keeps what was submitted
CdxWriteBatch ==
    /\ ex.pc = "cdx"
    /\ \E n \in 0 .. MaxBatch :
          /\ Len(ex.records) + n <= MaxSubmitted
          /\ \E b \in [1 .. n -> CdxRecords] :
                LET batch == [i \in 1 .. n |->
                                [b[i] EXCEPT !.block.offset = Len(ex.records) + i]]
                IN /\ cdx_writer' = write_batch(cdx_writer, batch)
                   /\ ex' = [ex EXCEPT !.records = @ \o batch]
    /\ UNCHANGED <<cache, warc_writer, pages_writer, package,
                   pipeVars, chanVars, hopVars, storeVars, surtVars, filterVars, limitVars, actorVars, writerVars>>

\* cdx_writer.finalize("indexes/")
CdxFinalize ==
    /\ ex.pc = "cdx"
    /\ cdx_writer' = flush_all(cdx_writer)
    /\ ex' = [ex EXCEPT !.pc = "finalized",
                        !.resources = << Entry("indexes/", "index.cdx.gz", cdx_writer'.out),
                                         Entry("indexes/", "index.idx", cdx_writer'.aux) >>]
    /\ UNCHANGED <<cache, warc_writer, pages_writer, package,
                   pipeVars, chanVars, hopVars, storeVars, surtVars, filterVars, limitVars, actorVars, writerVars>>

CdxNext == CdxWriteBatch \/ CdxFinalize

CdxSpec == CdxInit /\ [][CdxNext]_vars

(***************************************************************************)
(* Properties.                                                             *)
(***************************************************************************)
\* the calls that have been counted and whose reply future has not resolved
Counted == {c \in CallIds : call[c].st \in {"sending", "queued", "answering", "replied", "cancelled"}}
\* the messages queued in or being answered by an actor
InActor == {c \in CallIds : call[c].st \in {"queued", "answering"}}
\* the fetch tasks between permit acquisition and their end
FetchTasks == {r \in Reqs : req[r].task \in {"header", "joined"}}

NoWork ==
    /\ \A c \in CallIds : call[c].st \notin {"sending", "queued", "answering"}
    /\ \A m \in Mailboxes : queue[m] = <<>>
    /\ FetchTasks = {}
    /\ httpActor.st \in {"idle", "closed", "panicked"}
    /\ manager.st # "busy"
    /\ \A i \in Instances : instance[i].st \notin {"frames", "fetchwait"}

\* C1: the archiver leaves its tick loop (and starts the first close_and_join)
\* only at a tick where the submitter has finished and TASK_COUNT reads zero;
\* in every state where the submitter has finished and the counter is zero,
\* and in every state after the loop, no message is queued in, being sent to
\* or being answered by any actor and no fetch task is running.
C1_ShutdownWhenQuiet ==
    [][/\ (archiver = "ticking" /\ archiver' # "ticking")
            => (submitter = "finished" /\ TASK_COUNT = 0 /\ NoWork)
       /\ (submitter' = "finished" /\ TASK_COUNT' = 0) => NoWork'
       /\ archiver' \notin {"start", "ticking"} => NoWork']_vars

C1_Witness ==
    /\ archiver = "close_scripts"
    /\ \E r \in Reqs : req[r].src = "submit" /\ req[r].task = "done"
    /\ \E r \in Reqs : req[r].src = "seed" /\ archive[key(req[r].url)] = r

\* C2: in a run without any failure, the archiver either has returned or some
\* task can still take a step: the crawl never gets stuck before run_archiver
\* returns, for the capacities and the permit count of the model.
C2_Terminates == faults = 0 => (archiver = "done" \/ ENABLED Next)

\* C3: in a run without any failure, an instance that has read a Fetch frame
\* and waits for the fetch is never in a state where nothing can happen any
\* more: the frame is answered.
C3_FetchAnswered ==
    \A i \in Instances :
        (faults = 0 /\ instance[i].st = "fetchwait") => ENABLED Next

\* the deferred_requests made for the work of fetch r itself
OwnCalls(r) ==
    {RetrCall(r), StoreCall(r), ProcCall(r)} \cup {ScriptCall(r, s) : s \in Scripts}

\* the reply of fetch r has resolved and nothing is working on r any more
WorkEnded(r) ==
    /\ call[HttpCall(r)].st = "resolved"
    /\ req[r].task \in {"none", "done"}
    /\ manager.cur # r
    /\ \A i \in Instances : instance[i].cur # r
    /\ \A c \in OwnCalls(r) : call[c].st \notin {"sending", "queued", "answering"}

\* C4: once the reply of a fetch has resolved and its own work has ended,
\* none of its requests is still counted in TASK_COUNT.
C4_NetZero ==
    \A r \in Reqs : WorkEnded(r) => OwnCalls(r) \cap Counted = {}

\* C5: TASK_COUNT is exactly the number of deferred_request calls made whose
\* reply future has not resolved (counted from the call on, also while the
\* send is blocked, uncounted once at the resolve); so it never wraps below
\* zero and is at least the number of messages queued or being answered.
C5_Counter ==
    /\ TASK_COUNT = Cardinality(Counted)
    /\ TASK_COUNT >= Cardinality(InActor)
    /\ TASK_COUNT <= Cardinality(CallIds)

C5_Witness ==
    /\ \E c \in CallIds : call[c].st = "sending"
    /\ \E c \in CallIds : call[c].st = "replied"
    /\ TASK_COUNT > Cardinality(InActor)

\* C6: the fetch tasks that hold a permit are never more than
\* max_tasks_per_worker, and every permit is either available or held by one.
C6_Concurrency ==
    /\ Cardinality(FetchTasks) <= max_tasks_per_worker
    /\ permits >= 0
    /\ permits + Cardinality(FetchTasks) = max_tasks_per_worker

C6_Witness ==
    /\ Cardinality(FetchTasks) = max_tasks_per_worker
    /\ httpActor.st = "acquiring"
    /\ req[httpActor.cur].src = "seed"

\* C7: what a sink has read is always the first chunks of the body in the
\* producer's order; it sees end-of-stream only after the complete body of a
\* source that ended without error, and the error only if the source failed;
\* the producer sends at most one error, as its last message.
C7_SinkOrder ==
    /\ \A s \in Sinks :
          LET k == Len(rcv[s].seen)
          IN /\ k <= pump.n
             /\ rcv[s].seen = [i \in 1 .. k |-> i]
             /\ rcv[s].term = "eos" => (pump.end = "eof" /\ k = pump.n)
             /\ rcv[s].term = "err" => pump.end = "error"
    /\ \A i \in 1 .. Len(chan.sent) : chan.sent[i] = ErrMsg => i = Len(chan.sent)

C7_Witness ==
    /\ rcv["store"].term = "eos"
    /\ Len(rcv["store"].seen) = ChanCapacity
    /\ rcv["script"].live
    /\ Len(rcv["script"].seen) = 1

\* C8: the producer of a body either has terminated or a step of the
\* producer or of a receiver is still possible: no broadcast waits for ever.
C8_PumpTerminates == pump.st = "done" \/ ENABLED BodyNext

\* the HTTP actor answered request r from the archive
Served(r) ==
    /\ req[r].task = "none"
    /\ body[r] = "none"
    /\ call[StoreCall(r)].st = "none"
    /\ call[ProcCall(r)].st = "none"
    /\ archive[key(req[r].url)] # r
    /\ call[HttpCall(r)].st \in {"replied", "resolved"}
    /\ call[HttpCall(r)].st = "replied" => call[HttpCall(r)].res = "Ok"
    /\ req[r].answer \in {"none", "ok", "failed"}

\* C9: a request whose key had a record when the HTTP actor took it is, once
\* the actor has the reply of its Retrieve, answered from the archive: no
\* fetch task, no permit, no Store, no Process, no record written, and the
\* answer to a Fetch frame is AnswerFetch ok.
C9_CachedNotRefetched ==
    \A r \in Reqs : (req[r].present /\ req[r].retr # "none") => Served(r)

JoinedStore(r) ==
    IF req[r].stored # "none" THEN req[r].stored ELSE call[StoreCall(r)].res
JoinedScrape(r) ==
    IF req[r].scraped # "none" THEN req[r].scraped ELSE call[ProcCall(r)].res
\* this step is the end of the fetch task of r after its join!
FetchReplies(r) == req[r].task = "joined" /\ req'[r].task = "done"

C12_NoPartialRecord ==
    \A r \in {x \in Reqs : req[x].src # "none"} :
        LET k == key(req[r].url)
            c == call[StoreCall(r)]
        IN /\ c.st \in {"none", "sending", "queued"} => archive[k] # r
           /\ (c.st = "replied" /\ ~c.orphan /\ c.res # "Ok") => archive[k] # r
           /\ body[r] \notin {"none", "ok"} => archive[k] # r
           /\ archive[k] = r => body[r] = "ok"

C12_Witness ==
    \E r \in Reqs :
        /\ body[r] = "ok"
        /\ call[StoreCall(r)].st = "replied"
        /\ call[StoreCall(r)].res = "IO"
        /\ archive[key(req[r].url)] = NoRecord

\* C13 as stated: whenever the scrapers' Process of a fetched response ends
\* with an error, the fetch reply is that error, the Store has run to its end
\* and the key of the response holds a record afterwards.
C13_ScraperErrorStillStored ==
    [][\A r \in Reqs :
         (FetchReplies(r) /\ JoinedScrape(r) # "Ok" /\ ~call[HttpCall(r)].orphan) =>
            /\ call'[HttpCall(r)].res = JoinedScrape(r)
            /\ call'[StoreCall(r)].st = "resolved"
            /\ archive'[key(req[r].url)] # NoRecord]_vars

\* C13, amended: when Process ends with an error the Store has still run to
\* its end before the reply is sent; if the body was read completely and the
\* Store succeeded the reply is the scrapers' error and the key holds a
\* complete record; if the body stream ended in an error (which the instance
\* returns too) the Store failed as well and wrote nothing, and the reply is
\* the body's error.
C13_ScraperErrorStoredIfBodyOk ==
    [][\A r \in Reqs :
         (FetchReplies(r) /\ JoinedScrape(r) # "Ok" /\ ~call[HttpCall(r)].orphan) =>
            LET k == key(req[r].url)
            IN /\ call'[StoreCall(r)].st = "resolved"
               /\ call'[HttpCall(r)].res # "Ok"
               /\ (body[r] = "ok" /\ JoinedStore(r) = "Ok") =>
                     /\ call'[HttpCall(r)].res = JoinedScrape(r)
                     /\ archive'[k] \in Reqs
                     /\ body[archive'[k]] = "ok"
               /\ body[r] # "ok" =>
                     /\ JoinedStore(r) # "Ok"
                     /\ call'[HttpCall(r)].res = body[r]
                     /\ archive'[k] # r]_vars

C13_Witness ==
    \E r \in Reqs :
        /\ req[r].task = "done"
        /\ body[r] = "ok"
        /\ call[HttpCall(r)].st = "replied"
        /\ call[HttpCall(r)].res = "IO"
        /\ archive[key(req[r].url)] = r

\* C14: after the subprocess of one instance has crashed or sent an invalid
\* opcode, only that instance's task has ended: the request it was
\* processing has been answered (no reply Sender was dropped), and the
\* scraper manager, the other instances, the fetch tasks, the HTTP actor, the
\* submitter's requests and run_archiver are not brought down with it.
C14_CrashIsolated ==
    (\E i \in Instances : instance[i].st = "panicked") =>
        /\ manager.st # "panicked"
        /\ \A i \in Instances : instance[i].st # "aborted"
        /\ \A r \in Reqs : req[r].task # "panicked"
        /\ httpActor.st # "panicked"
        /\ archiver # "panicked"

\* C15: once ScriptManager::process has returned for a response (its reply
\* is sent), a request was dispatched to every Script whose filter matches
\* and to no other, and every dispatched request has completed and its reply
\* has been taken.
C15_ProcessAwaitsAll ==
    \A r \in Reqs :
        (manager.st # "panicked" /\ call[ProcCall(r)].st \in {"replied", "resolved"}) =>
            /\ \A s \in Scripts \ Matched(r) : call[ScriptCall(r, s)].st = "none"
            /\ \A s \in Matched(r) : call[ScriptCall(r, s)].st = "resolved"

\* hop resolution of a Submit or Fetch frame's URL succeeds and the hops of
\* the result are within max_hops
HopAccepted(i, x) ==
    /\ hop(MetaUrl(instance[i].cur), x) # None
    /\ hop(MetaUrl(instance[i].cur), x).hops <= max_hops

\* C16: for an instance reading frames and a Submit{url} frame: if hop
\* resolution succeeds with hops <= max_hops the frame's step issues a
\* deferred_request to the HTTP actor (a new request with that URL and those
\* hops, counted in TASK_COUNT, sent or being sent to the HTTP mailbox) and
\* cannot do anything else; otherwise the frame's step changes nothing at
\* all (no request, no count, nothing written) and the instance goes on
\* reading frames.  Every request made for a Submit frame is within max_hops.
C16_SubmitHops ==
    /\ \A i \in Instances, x \in Urls \cup {InvalidUrl} :
          ReadingFrames(i) =>
            /\ (HopAccepted(i, x) /\ nextReq <= MaxReq) =>
                  ENABLED (/\ InstSubmitFrame(i, x)
                           /\ nextReq' = nextReq + 1
                           /\ TASK_COUNT' = FetchAdd(TASK_COUNT)
                           /\ req'[nextReq].url = x
                           /\ req'[nextReq].hops = hop(MetaUrl(instance[i].cur), x).hops
                           /\ call'[HttpCall(nextReq)].st \in {"queued", "sending"})
            /\ HopAccepted(i, x) =>
                  ~ENABLED (InstSubmitFrame(i, x) /\ nextReq' = nextReq)
            /\ ~HopAccepted(i, x) =>
                  /\ ENABLED InstSubmitFrame(i, x)
                  /\ ~ENABLED (InstSubmitFrame(i, x) /\ vars' # vars)
    /\ \A r \in Reqs :
          req[r].src = "submit" => (req[r].url \in Urls /\ req[r].hops <= max_hops)

C16_Witness ==
    \E i \in Instances :
        /\ ReadingFrames(i)
        /\ req[instance[i].cur].src = "submit"
        /\ req[instance[i].cur].hops = max_hops
        /\ \E x \in Urls : ~HopAccepted(i, x)

\* C17: an instance takes a response only when idle, and only then writes
\* its Submit frame; between that and the end of submit() (EndFile, an
\* error, a panic) it holds that one response; it writes CloseScript only
\* from idle, and once closed (or ended in any other way) it never does
\* anything again.
C17_InstanceLifecycle ==
    [][\A i \in Instances :
         LET a == instance[i]
             b == instance'[i]
         IN /\ (a.st \in {"frames", "fetchwait"}) <=> a.cur # 0
            /\ a.cur # 0 => call[ScriptCall(a.cur, i[1])].st = "answering"
            /\ (b.cur # a.cur /\ b.cur # 0) => a.st = "idle"
            /\ (a.st = "idle" /\ b.st # "idle") => b.st \in {"frames", "closed", "aborted"}
            /\ (b.st = "closed" /\ a.st # "closed") => a.st = "idle"
            /\ a.st \in {"closed", "panicked", "aborted"} => b = a
            /\ a.st = "closed" =>
                  \A r \in Reqs : call'[ScriptCall(r, i[1])] = call[ScriptCall(r, i[1])]]_vars

C17_Witness ==
    \E i \in Instances :
        /\ instance[i].st = "closed"
        /\ \E r \in Reqs : call[ScriptCall(r, i[1])].st = "resolved"
        /\ \E j \in Instances : j # i /\ instance[j].st = "idle"

\* C18: when run_archiver returns, the storage manager has been told to
\* close (after the HTTP actor has exited).
C18_StorageClosedLast ==
    /\ archiver = "done" => watch.storage = "Closing"
    /\ watch.storage = "Closing" => httpActor.st = "closed"

C20_NoCoalescing ==
    \A r \in Reqs :
        /\ req[r].retr = "None" =>
              \/ req[r].task # "none"
              \/ httpActor.st = "acquiring" /\ httpActor.cur = r
        /\ (req[r].retr = "None" /\ call[HttpCall(r)].st \in {"replied", "resolved"}) =>
              req[r].task \in {"done", "panicked"}
        /\ req[r].task # "none" => req[r].retr \in {"None", "IO"}

\* the same unseen URL has been requested from the network twice, in a run
\* without any failure
C20_Witness ==
    /\ faults = 0
    /\ \E r1, r2 \in Reqs :
          /\ r1 # r2
          /\ req[r1].url = req[r2].url
          /\ req[r1].retr = "None" /\ req[r2].retr = "None"
          /\ body[r1] = "ok" /\ body[r2] = "ok"

\* the hops of a chain whose host differs from the host before it
RECURSIVE HostChanges(_)
HostChanges(c) ==
    IF Len(c) <= 1 THEN 0
    ELSE HostChanges(SubSeq(c, 1, Len(c) - 1))
         + (IF UrlHost(c[Len(c)].url) # UrlHost(c[Len(c) - 1].url) THEN 1 ELSE 0)

\* C21: hop(s) on a UrlInfo yields None, and the chain stays as it was, if
\* the join of its url with s fails; otherwise a UrlInfo whose url is the
\* join, whose discovered_in is the url before and whose hops is the hops
\* before, plus one if the joined URL's host differs from the host before.
\* A seed has discovered_in = url and hops = 0.  So at every UrlInfo of a
\* discovery chain hops is the number of host changes up to it, and hops
\* never decreases along the chain.
C21_Hop ==
    /\ hopped.called =>
          LET self == hopped.self
              j == join(self.url, hopped.new_url)
          IN IF j = NoUrl
             THEN hopped.out = None /\ chain[Len(chain)] = self
             ELSE /\ hopped.out.url = j
                  /\ hopped.out.discovered_in = self.url
                  /\ hopped.out.hops = IF UrlHost(j) # UrlHost(self.url)
                                       THEN self.hops + 1 ELSE self.hops
                  /\ chain[Len(chain)] = hopped.out
                  /\ chain[Len(chain) - 1] = self
    /\ chain # <<>> => (chain[1].discovered_in = chain[1].url /\ chain[1].hops = 0)
    /\ \A i \in 1 .. Len(chain) :
          /\ chain[i].hops = HostChanges(SubSeq(chain, 1, i))
          /\ i > 1 => chain[i].hops >= chain[i - 1].hops

\* a chain with a hop to another host and then a hop within that host
C21_Witness ==
    /\ Len(chain) = 3
    /\ chain[2].hops = 1
    /\ chain[3].hops = 1
    /\ chain[3].url # chain[2].url
    /\ hopped.out = chain[3]

\* the requests the crawl has made
Made == {r \in Reqs : req[r].src # "none"}

\* C22: no request is made before run_archiver has deleted the keys of the
\* seeds, and from then on no seed key holds a record of an earlier crawl:
\* a request for a seed key that found a record found one that a fetch of
\* this crawl wrote.  A request for a key that is not a seed's and that had
\* a record when the HTTP actor took it gets no fetch task: it does not wait
\* for a permit and nothing is read from the network for it.
C22_SeedsRefetched ==
    /\ archiver = "start" => (Made = {} /\ \A c \in CallIds : call[c].st = "none")
    /\ archiver # "start" => \A k \in entry_points : archive[k] # OldRecord
    /\ \A r \in Made :
          LET k == key(req[r].url)
          IN /\ (k \in entry_points /\ req[r].present) =>
                   \E r2 \in Made \ {r} : key(req[r2].url) = k /\ body[r2] = "ok"
             /\ (k \notin entry_points /\ req[r].present /\ req[r].retr # "none") =>
                   /\ req[r].task = "none"
                   /\ body[r] = "none"
                   /\ ~(httpActor.st = "acquiring" /\ httpActor.cur = r)

\* C23: when the archiver has shut down (quiescence was reached and
\* run_archiver returned), every key of entry_points holds a record.
C23_EntryPointsArchived ==
    archiver = "done" => \A k \in entry_points : archive[k] # NoRecord

\* the bytes a sink has read from the re-stream
Read(s) == Concat([i \in 1 .. Len(rcv[s].seen) |-> retrieved.chunks[rcv[s].seen[i]]])

\* C24: the response of a Retrieve after a successful Store has the stored
\* metadata; what a reader of its body has read is the beginning of the
\* stored bytes, the stream does not end in an error, and it ends only after
\* all the stored bytes; and the stream does end: while the re-stream is
\* running, it or a reader can take a step.
C24_RoundTrip ==
    retrieved.called =>
        /\ retrieved.meta = response.meta
        /\ \A s \in Sinks :
              LET all == Concat(response.chunks)
              IN /\ Len(Read(s)) <= Len(all)
                 /\ Read(s) = SubSeq(all, 1, Len(Read(s)))
                 /\ rcv[s].term # "err"
                 /\ rcv[s].term = "eos" => Read(s) = all
        /\ pump.st = "running" => ENABLED StoreNext
RECURSIVE Labels(_)
\* the labels of a host, first label first
Labels(s) ==
    IF \A i \in DOMAIN s : s[i] # "." THEN <<s>>
    ELSE LET d == CHOOSE i \in DOMAIN s : s[i] = "." /\ \A j \in 1 .. i - 1 : s[j] # "."
         IN <<SubSeq(s, 1, d - 1)>> \o Labels(SubSeq(s, d + 1, Len(s)))

\* a label of the form www or www followed by digits
IsWww(l) ==
    /\ Len(l) >= 3
    /\ SubSeq(l, 1, 3) = <<"w", "w", "w">>
    /\ \A i \in 4 .. Len(l) : l[i] \in Digit

Reversed(q) == [i \in DOMAIN q |-> q[Len(q) + 1 - i]]

\* the arrangements of the lower-cased pairs of a query that are sorted by key
SortedByKey(query) ==
    LET n == Len(query)
        low == [i \in 1 .. n |-> [k |-> to_lowercase(query[i].k), v |-> to_lowercase(query[i].v)]]
        arr == {[i \in 1 .. n |-> low[f[i]]] :
                  f \in {g \in [1 .. n -> 1 .. n] : \A i, j \in 1 .. n : g[i] = g[j] => i = j}}
    IN {a \in arr : \A i, j \in 1 .. n : i < j => ~cmp(a[j].k, a[i].k)}

\* the keys a description allows for a URL, given the labels it leaves
Described(url, labels) ==
    LET head == JoinWith(Reversed(labels), ",")
                \o (IF url.port # 0 /\ url.port # DefaultPort(url.scheme)
                    THEN <<":">> \o itoa(url.port) ELSE <<>>)
                \o <<")">> \o url.path
    IN IF url.query = <<>> THEN {head}
       ELSE {head \o <<"?">> \o
               JoinWith([i \in DOMAIN a |-> a[i].k \o <<"=">> \o a[i].v], "&") :
                 a \in SortedByKey(url.query)}

\* C25 as stated: the key is the reversed labels without a leading www
\* label (www or www and digits, first label of a domain host), ":port" for
\* a port that is not the default, ")", the path, and "?" with the
\* lower-cased pairs sorted by key if there is a query.
C25_SurtAsDescribed ==
    surted.called =>
        LET url == surted.url
            l == Labels(url.host)
        IN surted.out \in Described(url,
               IF url.domain /\ IsWww(l[1]) THEN Tail(l) ELSE l)

\* C25, amended: the leading www label goes, with its dot, only when a
\* non-empty rest of the host follows the dot; all else as described.
C25_Surt ==
    surted.called =>
        LET url == surted.url
            l == Labels(url.host)
        IN surted.out \in Described(url,
               IF url.domain /\ IsWww(l[1]) /\ Len(url.host) > Len(l[1]) + 1
               THEN Tail(l) ELSE l)

\* a www label with digits was cut off a host, a port was written, and a
\* query of two pairs came out in another order, lower-cased
C25_Witness ==
    /\ surted.called
    /\ surted.url.host = <<"w", "w", "w", "2", "3", ".", "a", ".", "c">>
    /\ surted.url.port = 123
    /\ surted.url.query = <<[k |-> <<"b">>, v |-> <<"X">>], [k |-> <<"A">>, v |-> <<>>]>>
    /\ surted.out = <<"c", ",", "a", ":", "1", "2", "3", ")", "/", "?",
                      "a", "=", "&", "b", "=", "x">>

\* C26: the key does not depend on the order of the query pairs, pairs
\* with equal keys and different values included.
C26_QueryOrder ==
    surted.called =>
        \A f \in {g \in [DOMAIN surted.url.query -> DOMAIN surted.url.query] :
                    \A i, j \in DOMAIN g : g[i] = g[j] => i = j} :
            surt([surted.url EXCEPT !.query = [i \in DOMAIN f |-> surted.url.query[f[i]]]])
                = surted.out

RECURSIVE CdxLines(_)
\* the lines of index.cdx.gz, read block after block
CdxLines(out) == IF out = <<>> THEN <<>> ELSE Head(out).lines \o CdxLines(Tail(out))

MemberPaths ==
    LET files == SelectSeq(package.members,
                           LAMBDA m : ~m.dir /\ m.path # <<"", "datapackage.json">>)
    IN [i \in DOMAIN files |-> files[i].path]

\* the paths of the resources of the datapackage.json in the ZIP
ResourcePaths ==
    LET dp == SelectSeq(package.members, LAMBDA m : m.path = <<"", "datapackage.json">>)
    IN [i \in DOMAIN dp[1].content |-> dp[1].content[i].path]

\* C28: the resources of datapackage.json are the members of the ZIP that
\* are files, datapackage.json apart, one entry each, in the order in which
\* the members were added.
C28_ResourcesInZipOrder ==
    package.finished => ResourcePaths = MemberPaths

\* C28, amended: one entry for each of these members; the entries of the
\* WARC files come first, then the entries of the indexes and the pages,
\* each group in the order in which its members were added.
C28_Resources ==
    package.finished =>
        /\ \A i, j \in DOMAIN MemberPaths : MemberPaths[i] = MemberPaths[j] => i = j
        /\ ResourcePaths =
              SelectSeq(MemberPaths, LAMBDA q : q[1] = "archive/")
              \o SelectSeq(MemberPaths, LAMBDA q : q[1] # "archive/")

\* a ZIP is finished that holds two WARC files
C28_Witness ==
    /\ package.finished
    /\ Len(MemberPaths) = 6
    /\ MemberPaths[6] = <<"archive/", "00001.warc.gz">>
    /\ ResourcePaths[2] = <<"archive/", "00001.warc.gz">>

\* C29: when a step of the export has failed there is no file at the
\* output path.
C29_NoPartialOutput ==
    ex.pc = "failed" => ~package.created

\* C30: finalize returns one entry for every WARC file opened, counter + 1
\* entries named 00000.warc.gz, 00001.warc.gz, ... in this order, each with
\* the SHA-256 and the length of the contents of its file.
C30_WarcEntries ==
    ex.warc_entries # <<>> =>
        /\ Len(ex.warc_entries) = warc_writer.counter + 1
        /\ Len(ex.warc_entries) = Len(warc_writer.files)
        /\ \A i \in DOMAIN ex.warc_entries :
              ex.warc_entries[i] =
                  [name |-> WarcName(i - 1),
                   path |-> PathJoin("archive/", WarcName(i - 1)),
                   hash |-> file_digest(warc_writer.files[i]),
                   bytes |-> Size(warc_writer.files[i])]

\* two files were opened: the first was closed after two records, over the
\* threshold, the second holds the third record
C30_Witness ==
    /\ Len(ex.warc_entries) = 2
    /\ ex.warc_entries[1].bytes = 3
    /\ ex.warc_entries[2].bytes = 2

\* the page entries of a pages file that are of a key
PagesOf(file, k) == Cardinality({i \in DOMAIN file : i > 1 /\ file[i].url = k})

\* C31: every record written has one page entry, in pages.jsonl iff its key
\* is among the entry points and in extraPages.jsonl otherwise; both files
\* begin with their header line and hold nothing else.
C31_Pages ==
    pages_writer # NoPagesWriter =>
        /\ pages_writer.main[1].url = "entrypoint-pages"
        /\ pages_writer.extra[1].url = "extra-pages"
        /\ Len(pages_writer.main) + Len(pages_writer.extra) = 2 + (ex.i - 1)
        /\ \A j \in 1 .. ex.i - 1 :
              LET k == ex.records[j].key
                  is_entry == \E e \in DOMAIN ex.entry_points : ex.entry_points[e] = k
              IN /\ PagesOf(pages_writer.main, k) = (IF is_entry THEN 1 ELSE 0)
                 /\ PagesOf(pages_writer.extra, k) = (IF is_entry THEN 0 ELSE 1)

\* three records are exported, the entry points are two of them, given out
\* of order: two pages and one extra page
C31_Witness ==
    /\ ex.pc = "done"
    /\ cache.entry_points = <<key(2), key(4)>>
    /\ Len(pages_writer.main) = 3
    /\ Len(pages_writer.extra) = 2

\* the CDXRecords write_warc has returned, in the order of the calls: the
\* lines of the index, the buffer of the CDX writer, the batch of main
Returned ==
    [i \in DOMAIN CdxLines(cdx_writer.out) |-> CdxLines(cdx_writer.out)[i].block]
    \o [i \in DOMAIN cdx_writer.buffer |-> cdx_writer.buffer[i].block]
    \o [i \in DOMAIN ex.batch |-> ex.batch[i].block]

\* C40: the records returned for a file are the records written into it,
\* in order, each with the position where it begins and its length; a file
\* is closed iff its last record ends beyond the threshold, and no other
\* record of a file does.
C40_WriteWarc ==
    \A f \in DOMAIN warc_writer.files :
        LET file == warc_writer.files[f]
            cdx == SelectSeq(Returned, LAMBDA b : b.filename = WarcName(f - 1))
            End(j) == Size(SubSeq(file, 1, j))
        IN /\ Len(cdx) = Len(file)
           /\ \A j \in DOMAIN file :
                 /\ cdx[j].offset = Size(SubSeq(file, 1, j - 1))
                 /\ cdx[j].length = file[j].len
                 /\ j < Len(file) => End(j) <= threshold
           /\ f <= warc_writer.counter <=> (file # <<>> /\ End(Len(file)) > threshold)

\* a file was closed after its second record, which began at 1 and ended
\* at 3, and the next record began the next file at 0
C40_Witness ==
    /\ Len(Returned) = 3
    /\ Returned[2] = [filename |-> "00000.warc.gz", offset |-> 1, length |-> 2]
    /\ Returned[3] = [filename |-> "00001.warc.gz", offset |-> 0, length |-> 1]

\* C38: what was submitted is, in this order, the lines of the blocks of
\* index.cdx.gz and then the buffer; a block has 1 to CDX_SPLIT_THRESHOLD
\* lines; after a write_batch the buffer is under CDX_SPLIT_THRESHOLD, and
\* after finalize it is empty.
C38_Blocks ==
    /\ [i \in DOMAIN ex.records |-> to_line(ex.records[i])] =
          CdxLines(cdx_writer.out) \o [i \in DOMAIN cdx_writer.buffer |-> to_line(cdx_writer.buffer[i])]
    /\ \A b \in DOMAIN cdx_writer.out :
          /\ Len(cdx_writer.out[b].lines) >= 1
          /\ Len(cdx_writer.out[b].lines) <= CDX_SPLIT_THRESHOLD
    /\ ex.pc = "cdx" => Len(cdx_writer.buffer) < CDX_SPLIT_THRESHOLD
    /\ ex.pc = "finalized" => cdx_writer.buffer = <<>>

\* four records in three blocks: a batch of three was cut into a full block
\* and a block of one line, the last record was written by finalize
C38_Witness ==
    /\ ex.pc = "finalized"
    /\ Len(ex.records) = 4
    /\ Len(cdx_writer.out) = 3
    /\ Len(cdx_writer.out[1].lines) = 2
    /\ Len(cdx_writer.out[2].lines) = 1

\* C39: index.idx has one entry for every block of index.cdx.gz, in block
\* order, with the key and the time of the first line of the block, the sum
\* of the lengths of the blocks before it as offset and the length of the
\* block as length.
C39_Idx ==
    /\ Len(cdx_writer.aux) = Len(cdx_writer.out)
    /\ \A b \in DOMAIN cdx_writer.out :
          /\ cdx_writer.aux[b].key = cdx_writer.out[b].lines[1].key
          /\ cdx_writer.aux[b].time = cdx_writer.out[b].lines[1].time
          /\ cdx_writer.aux[b].block.offset = Size(SubSeq(cdx_writer.out, 1, b - 1))
          /\ cdx_writer.aux[b].block.length = cdx_writer.out[b].len

\* the third of three blocks begins at 5, after a block of two lines (3
\* bytes) and a block of one line (2 bytes)
C39_Witness ==
    /\ ex.pc = "finalized"
    /\ Len(cdx_writer.aux) = 3
    /\ cdx_writer.aux[2].block.offset = 3
    /\ cdx_writer.aux[3].block.offset = 5
    /\ cdx_writer.aux[3].key # cdx_writer.aux[1].key

\* C33: a call of filter.matches answers true exactly when the url_pattern is
\* absent or matches the response URL, and no media range is declared or the
\* Content-Type of the response parses to a media type that one declared
\* range matches
Declared(filter, data) ==
    /\ filter.url_pattern = <<>> \/ is_match(filter.url_pattern[1], data.url)
    /\ \/ filter.mime_types = <<>>
       \/ /\ data.content_type # <<>>
          /\ to_str(data.content_type[1]).ok
          /\ MediaParse(data.content_type[1]).ok
          /\ \E i \in 1 .. Len(filter.mime_types) :
                 range_matches(filter.mime_types[i], MediaParse(data.content_type[1]))
C33_FilterMatches ==
    matched.called => (matched.out <=> Declared(matched.filter, matched.data))

RECURSIVE BytesOf(_, _)
\* the bytes of the chunks a sink was handed
BytesOf(chunks, seen) ==
    IF seen = <<>> THEN 0 ELSE chunks[Head(seen)] + BytesOf(chunks, Tail(seen))
RECURSIVE Total(_, _)
\* the length of the first k chunks of the response
Total(chunks, k) == IF k = 0 THEN 0 ELSE chunks[k] + Total(chunks, k - 1)
\* the chunks that fit the limit, in order, and the error in place of the next
WithinLimit(chunks, limit) ==
    LET over == {k \in 1 .. Len(chunks) : Total(chunks, k) > limit}
        first == CHOOSE k \in over : \A j \in over : k <= j
    IN  [i \in 1 .. first |-> IF i = first THEN ErrMsg ELSE i]
IsPrefix(a, b) == Len(a) <= Len(b) /\ a = SubSeq(b, 1, Len(a))

\* C36: with max_body_length set, no sink is handed more than max_body_length
\* bytes of the response; when a chunk takes the received total over the
\* limit, what is broadcast is the chunks before it and then BodyTooLarge, and
\* nothing more
C36_BodyLimit ==
    stream.max_length # <<>> =>
        /\ \A s \in Sinks : BytesOf(stream.chunks, rcv[s].seen) <= stream.max_length[1]
        /\ Total(stream.chunks, Len(stream.chunks)) > stream.max_length[1] =>
               /\ IsPrefix(chan.sent, WithinLimit(stream.chunks, stream.max_length[1]))
               /\ pump.st = "done" => stream.err = "BodyTooLarge"
               /\ pump.st = "done" /\ rcv[Origin].live =>
                      chan.sent = WithinLimit(stream.chunks, stream.max_length[1])
C36_Witness ==
    /\ stream.chunks = <<2, 1, 1>>
    /\ stream.max_length = <<2>>
    /\ stream.err = "BodyTooLarge"
    /\ chan.sent = <<1, ErrMsg>>
    /\ \A s \in Sinks : rcv[s].seen = <<1>> /\ rcv[s].term = "err"

\* C34: every UrlInfo a script instance sent to the HTTP actor, for a Submit
\* frame or for a Fetch frame, has hops of at most max_hops
C34_HopsWithinMax ==
    /\ \A r \in Reqs :
          req[r].src \in {"submit", "fetch"} => req[r].hops <= max_hops
    /\ \A i \in 2 .. Len(chain) : chain[i].hops <= max_hops

\* C35: the stream written to a subprocess reads as complete frames, the
\* last of which may still be open: a frame that carries a response has its
\* zero length written before the next frame begins
C35_CompleteFrames == ReadFrames(proc_in, 1) # "torn"

\* the actor has left its loop: close() is running or the task has ended
Left(a) == a.st \in {"closing", "exited"}
\* every message the actor took has been answered by it
AllAnswered(by, a, replies) ==
    \A r \in a.took : \E reply \in replies : reply.by = by /\ reply.to = r
\* one step of an actor of the pool
ActorStep(by, a, b, closing) ==
    /\ Left(a) =>
          /\ Left(b) /\ b.took = a.took /\ b.closes = a.closes
          /\ \A reply \in answered' \ answered : reply.by # by
    /\ (~Left(a) /\ Left(b)) =>
          /\ closing = "Closing"
          /\ b.closes = 1 /\ a.closes = 0
          /\ AllAnswered(by, a, answered)
    /\ ~Left(b) => b.closes = 0
C32_Steps ==
    /\ ActorStep(TheManager, sm, sm', signal.scripts)
    /\ \A i \in Pool : ActorStep(i, pool[i], pool'[i], signal.inst[i[1]])
    /\ (owner.st # "returned" /\ owner'.st = "returned") =>
          /\ sm.st = "exited"
          /\ \A i \in Pool : pool[i].st = "exited"
    /\ (sm.st # "exited" /\ sm'.st = "exited") => \A i \in Pool : pool[i].st = "exited"
\* C32: an actor that has observed the shutdown takes and answers no further
\* message and runs close() once; it observes it only between messages, so
\* the request it was answering when Closing was sent is answered before
\* close(); close_and_join returns after every task of the manager has ended
C32_Shutdown == [][C32_Steps]_vars
C32_Witness ==
    /\ owner.st = "returned"
    /\ \E reply \in answered :
          reply.by = TheManager /\ reply.since = "Running" /\ reply.at = "Closing"
    /\ \E reply \in answered :
          reply.by \in Pool /\ reply.since = "Running" /\ reply.at = "Closing"
    /\ mail.manager # <<>>

\* C37: the workers of one Script that await frames at the same time hold
\* different responses, each taken once from the Script's mailbox; with two
\* workers such a state exists
C37_TwoInstances ==
    \A i \in Pool, j \in Pool :
        (i # j /\ i[1] = j[1] /\ pool[i].st = "frames" /\ pool[j].st = "frames") =>
            pool[i].cur # pool[j].cur
C37_Witness ==
    \E s \in Scripts :
        /\ \A i \in Pool : i[1] = s => pool[i].st = "frames"
        /\ pool[<<s, 1>>].cur # pool[<<s, 2>>].cur

====
